---- MODULE Spec2Model ----
(***************************************************************************)
(* A model of astrocam.go: the file-batching / archive-creation / upload   *)
(* pipeline (fileBrowser, getImageFiles, packImagesForArea, moveImages,    *)
(* uploadFile, makeJobFor..., programLoop, run).                           *)
(*                                                                         *)
(* Strings are sequences of one-character strings; indices returned by     *)
(* Index / LastIndex are 0-based with -1 for "not found", as in Go.        *)
(***************************************************************************)
EXTENDS Integers, Sequences, FiniteSets, TLC

----------------------------------------------------------------------------
(* Strings *)

\* byte value of a character (Go compares strings bytewise)
Ascii(c) ==
  CASE c = "-" -> 45 [] c = "." -> 46
    [] c = "0" -> 48 [] c = "1" -> 49 [] c = "2" -> 50 [] c = "3" -> 51
    [] c = "4" -> 52 [] c = "5" -> 53 [] c = "6" -> 54 [] c = "7" -> 55
    [] c = "8" -> 56 [] c = "9" -> 57
    [] c = "A" -> 65 [] c = "B" -> 66 [] c = "F" -> 70 [] c = "P" -> 80
    [] c = "S" -> 83
    [] c = "_" -> 95
    [] c = "a" -> 97 [] c = "f" -> 102 [] c = "i" -> 105 [] c = "p" -> 112
    [] c = "r" -> 114 [] c = "s" -> 115 [] c = "t" -> 116 [] c = "z" -> 122
    [] OTHER -> 0

\* Go's s < t on strings
RECURSIVE StrLess(_, _)
StrLess(s, t) ==
  IF t = <<>> THEN FALSE
  ELSE IF s = <<>> THEN TRUE
  ELSE IF Ascii(Head(s)) # Ascii(Head(t)) THEN Ascii(Head(s)) < Ascii(Head(t))
  ELSE StrLess(Tail(s), Tail(t))

\* sub occurs in s at 0-based offset i
OccursAt(s, sub, i) ==
  /\ i >= 0
  /\ i + Len(sub) <= Len(s)
  /\ \A k \in 1..Len(sub) : s[i + k] = sub[k]

\* strings.Index
Index(s, sub) ==
  LET hits == {i \in 0..Len(s) : OccursAt(s, sub, i)}
  IN  IF hits = {} THEN -1 ELSE CHOOSE i \in hits : \A j \in hits : i <= j

\* strings.LastIndex
LastIndex(s, sub) ==
  LET hits == {i \in 0..Len(s) : OccursAt(s, sub, i)}
  IN  IF hits = {} THEN -1 ELSE CHOOSE i \in hits : \A j \in hits : i >= j

\* Go's s[a:b]
Slice(s, a, b) == SubSeq(s, a + 1, b)

\* filepath.Join(dir, name) and filepath.Base(path): a path is the pair of
\* its directory and its last element
Join(dir, name) == [dir |-> dir, base |-> name]
Base(path) == path.base

RECURSIVE Concat(_)
Concat(parts) == IF parts = <<>> THEN <<>> ELSE Head(parts) \o Concat(Tail(parts))

----------------------------------------------------------------------------
(* Area File Locator *)

\* the compiled pattern "^" + constellation + "(_|-SF_).*" + QuoteMeta(ext),
\* applied with MatchString: anchored at the start only.  The constellation
\* is interpolated unquoted, so a "." in it matches any character; ext is
\* quoted, so it matches literally.
RegexMatch(constellation, ext, name) ==
  /\ Len(name) >= Len(constellation)
  /\ \A k \in 1..Len(constellation) :
        constellation[k] = "." \/ constellation[k] = name[k]
  /\ \E sep \in {<<"_">>, <<"-", "S", "F", "_">>} :
        /\ OccursAt(name, sep, Len(constellation))
        /\ \E j \in (Len(constellation) + Len(sep))..Len(name) :
              OccursAt(name, ext, j)

\* os.ReadDir returns the entries sorted by filename
RECURSIVE SortedByName(_)
SortedByName(entries) ==
  IF entries = {} THEN <<>>
  ELSE LET e == CHOOSE x \in entries :
                  \A y \in entries : y = x \/ StrLess(x.name, y.name)
       IN  <<e>> \o SortedByName(entries \ {e})

RECURSIVE FilterEntries(_, _, _, _)
FilterEntries(listing, constellation, dir, ext) ==
  IF listing = <<>> THEN <<>>
  ELSE LET entry == Head(listing)
           rest  == FilterEntries(Tail(listing), constellation, dir, ext)
       IN  IF ~entry.isDir /\ RegexMatch(constellation, ext, entry.name)
           THEN <<Join(dir, entry.name)>> \o rest
           ELSE rest

\* fileBrowser: entries is the content of dir (a set of [name, isDir])
fileBrowser(constellation, dir, ext, entries) ==
  FilterEntries(SortedByName(entries), constellation, dir, ext)

\* sortByNamePart that orders by the whole basename
sortByNamePart_WholeName(inputFileName) == Base(inputFileName)

\* sortByNamePart
sortByNamePart(inputFileName) ==
  LET filename == Base(inputFileName)
      pos      == Index(filename, <<"_">>)
      lastDot  == LastIndex(filename, <<".">>)
  IN  IF pos = -1 THEN filename
      ELSE IF lastDot = -1 THEN Slice(filename, pos + 1, Len(filename))
      ELSE Slice(filename, pos + 1, lastDot)

Range(f) == {f[i] : i \in DOMAIN f}

\* the results sort.Slice may leave: every arrangement of files that is
\* ordered by the less function on the keys (sort.Slice is not stable);
\* key maps each file to its sort key
SortSliceOutcomes(files, key) ==
  {p \in [1..Len(files) -> Range(files)] :
      /\ \A x \in Range(files) :
            Cardinality({i \in 1..Len(files) : p[i] = x})
              = Cardinality({i \in 1..Len(files) : files[i] = x})
      /\ \A i \in 1..(Len(files) - 1) :
            ~StrLess(key[p[i + 1]], key[p[i]])}

\* getImageFiles after the sort: "Take up to 'count' files"
\* (make([]string, maxFiles) panics for a negative maxFiles)
TakeFiles(sorted, count) ==
  LET maxFiles == IF Len(sorted) < count THEN Len(sorted) ELSE count
  IN  IF maxFiles = 0 THEN [panic |-> FALSE, FilesToArchive |-> <<>>, FilesToDelete |-> <<>>]
      ELSE IF maxFiles < 0 THEN [panic |-> TRUE, FilesToArchive |-> <<>>, FilesToDelete |-> <<>>]
      ELSE [panic |-> FALSE,
            FilesToArchive |-> [i \in 1..maxFiles |-> Base(sorted[i])],
            FilesToDelete  |-> [i \in 1..maxFiles |-> sorted[i]]]

\* getImageFiles: the file groups it may return for the listed files
getImageFiles(files, count) ==
  {TakeFiles(sorted, count) :
     sorted \in SortSliceOutcomes(files, [f \in Range(files) |-> sortByNamePart(f)])}

----------------------------------------------------------------------------
(* Program constants *)

MIN_INTERVAL == 15
uploadThrottleDelay == 120
testTimeout == 120
maxRetries == 2
retryDelay == 3
settleDelay == 5

ERROR == "ERROR"
EMPTY == "EMPTY"

\* "no time yet": the zero time.Time of lastUploadTime
NoTime == -1

(* Bounds of the model *)

\* largest configured batch size
MaxCount == 2
\* how many times the environment adds or removes a camera file
MaxEnv == 1
\* how many archives one run names (wall-clock readings available)
MaxStamp == 1

----------------------------------------------------------------------------
(* The scenario: areas, camera files, leftover archives *)

AreaA == <<"A">>
AreaB == <<"B">>
\* areas.txt, in configured order
areas == <<AreaA, AreaB>>

ExtFts  == <<".", "f", "t", "s">>
ExtFits == <<".", "f", "i", "t", "s">>
ExtFit  == <<".", "f", "i", "t">>
ExtRar  == <<".", "r", "a", "r">>
ExtZip  == <<".", "z", "i", "p">>

\* names the camera (or anything else) may put into the camera directory
FileA1   == <<"A", "_", "1">> \o ExtFts
FileA2   == <<"A", "_", "2">> \o ExtFts
FileASF  == <<"A", "-", "S", "F", "_", "0">> \o ExtFts
FileASF2 == <<"A", "-", "S", "F", "_", "2">> \o ExtFts
FileB1   == <<"B", "_", "1">> \o ExtFts
CameraFiles == {FileA1, FileA2, FileASF, FileASF2, FileB1}

CameraDirectory == "camera"
ProcessedDirectory == "processed"
tempDirectory == "temp"

----------------------------------------------------------------------------
(* Archive Namer *)

Prefix  == <<>>
Postfix == <<"_", "P">>

Digit(n) ==
  CASE n = 0 -> "0" [] n = 1 -> "1" [] n = 2 -> "2" [] n = 3 -> "3" [] n = 4 -> "4"
    [] n = 5 -> "5" [] n = 6 -> "6" [] n = 7 -> "7" [] n = 8 -> "8" [] n = 9 -> "9"

TwoDigits(n) == <<Digit((n \div 10) % 10), Digit(n % 10)>>

\* a wall-clock reading is a number of seconds since 2025-01-01 00:00:00;
\* now.Format("2006-01-02") within January 2025
DateStr(w) == <<"2", "0", "2", "5", "-", "0", "1", "-">> \o TwoDigits(1 + w \div 86400)

\* now.Format("150405")
TimeStr(w) ==
  TwoDigits((w % 86400) \div 3600) \o TwoDigits((w % 3600) \div 60) \o TwoDigits(w % 60)

\* fmt.Sprintf("%s_%s%s_%s%s%s", dateStr, Prefix, area, timeStr, Postfix, archiveExt)
ArchiveName(w, prefix, area, postfix, ext) ==
  Concat(<<DateStr(w), <<"_">>, prefix, area, <<"_">>, TimeStr(w), postfix, ext>>)

RECURSIVE RemoveChar(_, _)
RemoveChar(s, c) ==
  IF s = <<>> THEN <<>>
  ELSE IF Head(s) = c THEN RemoveChar(Tail(s), c)
  ELSE <<Head(s)>> \o RemoveChar(Tail(s), c)

\* sortByArchiveName cutting at the first occurrence of the postfix
sortByArchiveName_FirstPostfix(archiveFileName, ext, postfix) ==
  LET f0   == Base(archiveFileName)
      p1   == LastIndex(f0, ext)
      f1   == IF p1 # -1 THEN Slice(f0, 0, p1) ELSE f0
      p2   == IF postfix # <<>> THEN Index(f1, postfix) ELSE -1
      f2   == IF p2 # -1 THEN Slice(f1, 0, p2) ELSE f1
      pos  == Index(f2, <<"_">>)
      last == LastIndex(f2, <<"_">>)
  IN  IF pos = -1 THEN f2
      ELSE RemoveChar(RemoveChar(Slice(f2, 0, pos) \o Slice(f2, last, Len(f2)), "-"), "_")

\* sortByArchiveName
sortByArchiveName(archiveFileName, ext, postfix) ==
  LET f0   == Base(archiveFileName)
      p1   == LastIndex(f0, ext)
      f1   == IF p1 # -1 THEN Slice(f0, 0, p1) ELSE f0
      p2   == IF postfix # <<>> THEN LastIndex(f1, postfix) ELSE -1
      f2   == IF p2 # -1 THEN Slice(f1, 0, p2) ELSE f1
      pos  == Index(f2, <<"_">>)
      last == LastIndex(f2, <<"_">>)
  IN  IF pos = -1 THEN f2
      ELSE RemoveChar(RemoveChar(Slice(f2, 0, pos) \o Slice(f2, last, Len(f2)), "-"), "_")

\* filepath.Glob(dir/*suffix) over the names in a directory: the names that
\* end with suffix, sorted
RECURSIVE SortedNames(_)
SortedNames(names) ==
  IF names = {} THEN <<>>
  ELSE LET n == CHOOSE x \in names : \A y \in names : y = x \/ StrLess(x, y)
       IN  <<n>> \o SortedNames(names \ {n})

HasSuffix(s, suffix) == OccursAt(s, suffix, Len(s) - Len(suffix))

Glob(dir, names, suffix) ==
  LET hits == SortedNames({n \in names : HasSuffix(n, suffix)})
  IN  [i \in 1..Len(hits) |-> Join(dir, hits[i])]

\* getArchiveFiles that finds no archive
getArchiveFiles_None(names, ext, postfix) == {<<>>}

\* getArchiveFiles without its sort: the order of filepath.Glob
getArchiveFiles_Unsorted(names, ext, postfix) == {Glob(tempDirectory, names, ext)}

\* getArchiveFiles: the orders in which the archives in the scratch
\* directory may be returned
getArchiveFiles(names, ext, postfix) ==
  LET files == Glob(tempDirectory, names, ext)
  IN  SortSliceOutcomes(files, [f \in Range(files) |-> sortByArchiveName(f, ext, postfix)])

\* determineFitsExtension trying the extensions in the opposite order
determineFitsExtension_Reversed(names) ==
  IF Len(Glob(CameraDirectory, names, ExtFit)) > 0 THEN ExtFit
  ELSE IF Len(Glob(CameraDirectory, names, ExtFits)) > 0 THEN ExtFits
  ELSE IF Len(Glob(CameraDirectory, names, ExtFts)) > 0 THEN ExtFts
  ELSE ExtFts

\* determineFitsExtension: the first of fts, fits, fit with a file in the
\* camera directory, else .fts
determineFitsExtension(names) ==
  IF Len(Glob(CameraDirectory, names, ExtFts)) > 0 THEN ExtFts
  ELSE IF Len(Glob(CameraDirectory, names, ExtFits)) > 0 THEN ExtFits
  ELSE IF Len(Glob(CameraDirectory, names, ExtFit)) > 0 THEN ExtFit
  ELSE ExtFts

----------------------------------------------------------------------------
(* State *)

VARIABLES
  \* configuration and what startup determined (fixed after construction)
  testMode, Count, Interval, archiveExt, fitsExt,
  \* directories: names in the camera and processed directories, archive
  \* files in the scratch directory (name, member list, and what is known
  \* of the file's integrity)
  cam, proc, temp,
  \* time: time.Since(lastUploadTime) and time.Since(testStartTime), both
  \* kept up to the value they are compared with; the ticker's time to its
  \* next tick and its one-slot channel; the wall-clock readings used
  sinceLastUpload, sinceTestStart, tickIn, tickPending, stamp,
  \* control: the statement the process is at, and the locals alive there
  pc, exitCode, sigPending, queue, cur, ret, areaIdx, hasNewFiles,
  fileGroup, archiveFileName, attempt, moveFiles,
  \* how often the environment may still touch the camera directory
  envLeft,
  \* history, written but never read by the program's steps
  lastUpload, lastGap, lastFail, delivered, attemptedIter,
  failedFirst, checkedCount, moveFailed, lastMove,
  \* argument and result of a function applied on its own
  input, output

cfgVars   == <<testMode, Count, Interval, archiveExt, fitsExt>>
dirVars   == <<cam, proc, temp>>
clockVars == <<sinceLastUpload, sinceTestStart, tickIn, tickPending>>
loopVars  == <<queue, cur, ret, areaIdx, hasNewFiles>>
packVars  == <<fileGroup, archiveFileName, attempt, moveFiles>>
stepVars  == <<lastFail, lastUpload, checkedCount, lastMove>>
histVars  == <<stepVars, lastGap, delivered, attemptedIter, failedFirst,
               moveFailed>>
pureVars  == <<input, output>>
vars == <<cfgVars, dirVars, clockVars, stamp, pc, exitCode, sigPending,
          loopVars, packVars, envLeft, histVars, pureVars>>

Min(a, b) == IF a < b THEN a ELSE b

\* run: "Determine actual interval with minimum enforcement"
actualInterval(configured) == IF configured < MIN_INTERVAL THEN MIN_INTERVAL ELSE configured

Names(archives) == {a.name : a \in archives}
Entries(names) == {[name |-> n, isDir |-> FALSE] : n \in names}

\* the wall-clock reading of the k-th archive named by this run
FirstReading == 86390
ReadingStep == 15
Reading(k) == FirstReading + (k - 1) * ReadingStep

\* archives a previous run may have left in the scratch directory
LeftoverZip == [name |-> ArchiveName(FirstReading - 20, Prefix, AreaA, Postfix, ExtZip),
                members |-> <<>>, integ |-> "leftover"]
LeftoverRar == [name |-> ArchiveName(FirstReading - 10, Prefix, AreaB, Postfix, ExtRar),
                members |-> <<>>, integ |-> "leftover"]
Leftovers == {LeftoverZip, LeftoverRar}

NoGroup == [panic |-> FALSE, FilesToArchive |-> <<>>, FilesToDelete |-> <<>>]
NoUpload == [name |-> <<>>, kind |-> "none", status |-> 0]
NoMove == [ioFailed |-> {}, removed |-> {}, renamed |-> {}, overwritten |-> {}]

ConfigCounts == 1..MaxCount
ConfigIntervals == {10}
ConfigArchiveExts == {ExtZip}

\* the camera directory when the process starts, and the files in it that
\* the environment may still remove or write again while the process runs
InitialCamera == {FileA1, FileA2, FileB1}
Unsettled == {FileA2}

\* the values the variables of the pipeline have when NewAstroCam returns
PipelineStart ==
  /\ Interval \in ConfigIntervals
  /\ fitsExt = determineFitsExtension(cam)
  /\ sinceLastUpload = NoTime
  /\ sinceTestStart = 0
  /\ tickIn = actualInterval(Interval)
  /\ tickPending = FALSE
  /\ stamp = 0
  /\ exitCode = -1
  /\ sigPending = FALSE
  /\ queue = <<>>
  /\ cur = <<>>
  /\ ret = "archives"
  /\ areaIdx = 1
  /\ hasNewFiles = FALSE
  /\ fileGroup = NoGroup
  /\ archiveFileName = <<>>
  /\ attempt = 1
  /\ moveFiles = <<>>
  /\ envLeft = MaxEnv
  /\ lastUpload = NoUpload
  /\ lastGap = NoTime
  /\ lastFail = "none"
  /\ delivered = {}
  /\ attemptedIter = {}
  /\ failedFirst = {}
  /\ checkedCount = 0
  /\ moveFailed = FALSE
  /\ lastMove = NoMove

PureIdle == input = <<>> /\ output = <<>>

Init ==
  /\ testMode \in BOOLEAN
  /\ Count \in ConfigCounts
  /\ archiveExt \in ConfigArchiveExts
  /\ cam = InitialCamera
  /\ proc = {}
  /\ temp = Leftovers
  /\ PipelineStart
  /\ pc = "makeJobForArchives"
  /\ PureIdle

----------------------------------------------------------------------------
(* Time *)

\* the clocks after d more seconds: the two elapsed times (not tracked
\* beyond the value the program compares them with; testStartTime is read
\* in test mode only), and the ticker, whose channel holds one tick
ClockAfter(d) ==
  [up   |-> IF sinceLastUpload = NoTime THEN NoTime
            ELSE Min(sinceLastUpload + d, uploadThrottleDelay),
   idle |-> IF testMode THEN Min(sinceTestStart + d, testTimeout + 1) ELSE sinceTestStart,
   tin  |-> IF d < tickIn THEN tickIn - d
            ELSE actualInterval(Interval) - ((d - tickIn) % actualInterval(Interval)),
   pend |-> tickPending \/ d >= tickIn]

Sleep(d) ==
  /\ sinceLastUpload' = ClockAfter(d).up
  /\ sinceTestStart' = ClockAfter(d).idle
  /\ tickIn' = ClockAfter(d).tin
  /\ tickPending' = ClockAfter(d).pend

\* waitForUploadThrottle that never sleeps
waitForUploadThrottle_NoWait(timeSinceLastUpload) == 0

\* waitForUploadThrottle: how long it sleeps
waitForUploadThrottle(timeSinceLastUpload) ==
  IF timeSinceLastUpload = NoTime THEN 0
  ELSE IF timeSinceLastUpload < uploadThrottleDelay
       THEN uploadThrottleDelay - timeSinceLastUpload
       ELSE 0

----------------------------------------------------------------------------
(* Control transfers: each sets pc, exitCode and areaIdx *)

Goto(label) == pc' = label /\ exitCode' = exitCode /\ areaIdx' = areaIdx

\* an exit that always reports status 0
Exit_StatusZero(code) == pc' = "exit" /\ exitCode' = 0 /\ areaIdx' = areaIdx

\* os.Exit(code), a panic (code 2), or main returning (code 0)
Exit(code) == pc' = "exit" /\ exitCode' = code /\ areaIdx' = areaIdx

\* back in the loop of makeJobForAreas, at the same area again
NextArea_SameArea == pc' = "makeJobForAreas" /\ exitCode' = exitCode /\ areaIdx' = areaIdx

\* back in the loop of makeJobForAreas, at the next area
NextArea == pc' = "makeJobForAreas" /\ exitCode' = exitCode /\ areaIdx' = areaIdx + 1

\* makeJobForArchive that calls uploadFile again instead of returning
ReturnFromJob_UploadAgain == Goto("uploadFile")

\* makeJobForArchive returns to the loop that called it
ReturnFromJob == IF ret = "areas" THEN NextArea ELSE Goto("archivesLoop")

\* a failed step that is never fatal
FatalInTestMode_CarryOn(carryOn) == carryOn

\* a failed step that is fatal in every mode
FatalInTestMode_Always(carryOn) == Exit(1)

\* the outcome of a step that failed: fatal in test mode, else carry on
FatalInTestMode(carryOn) == IF testMode THEN Exit(1) ELSE carryOn

----------------------------------------------------------------------------
(* History of the step just taken: whether it failed and how, the result  *)
(* of the uploadFile call of the makeJobForArchive in progress, and the   *)
(* number of files the count check of makeJobForAreas saw, and what the   *)
(* attempt of moveImages did: the files on which os.Remove or os.Rename   *)
(* returned an error, the sources removed, the sources renamed, and the   *)
(* files of the processed directory a rename replaced                     *)

StepInMove(fail) == lastFail' = fail /\ lastUpload' = NoUpload /\ checkedCount' = 0
Step(fail) == StepInMove(fail) /\ lastMove' = NoMove
StepInArea(fail) ==
  /\ lastFail' = fail /\ lastUpload' = NoUpload /\ checkedCount' = checkedCount
  /\ lastMove' = NoMove

----------------------------------------------------------------------------
(* Delivery *)

\* the status check of uploadFile without its lower limit
IsSuccess_NoLowerLimit(status) == status < 300

\* the status check of uploadFile without its upper limit
IsSuccess_NoUpperLimit(status) == status >= 200

\* uploadFile: "resp.StatusCode >= 200 && resp.StatusCode < 300"
IsSuccess(status) == status >= 200 /\ status < 300

StatusCodes == {199, 200, 299, 300, 500}
\* what one call of uploadFile may meet: the archive cannot be opened, the
\* request fails in transport, or the server answers with a status
UploadResults ==
  {[kind |-> "open", status |-> 0], [kind |-> "transport", status |-> 0]}
    \cup {[kind |-> "status", status |-> code] : code \in StatusCodes}

\* makeJobForArchives: list the scratch directory (start of programLoop)
MakeJobForArchives ==
  /\ pc = "makeJobForArchives"
  /\ \E files \in getArchiveFiles(Names(temp), archiveExt, Postfix) : queue' = files
  /\ Goto("archivesLoop")
  /\ Step("none")
  /\ attemptedIter' = {}
  /\ failedFirst' = {[f EXCEPT !.age = 1] : f \in {g \in failedFirst : g.age = 0}}
  /\ UNCHANGED <<cfgVars, dirVars, clockVars, stamp, sigPending, cur, ret, hasNewFiles,
                 packVars, envLeft, lastGap, delivered, moveFailed,
                 pureVars>>

\* makeJobForArchives: the loop over the archives found
ArchivesLoop ==
  /\ pc = "archivesLoop"
  /\ IF queue = <<>>
     THEN /\ pc' = "makeJobForAreas"
          /\ areaIdx' = 1
          /\ hasNewFiles' = FALSE
          /\ UNCHANGED <<exitCode, queue, cur, ret>>
     ELSE /\ cur' = Head(queue)
          /\ queue' = Tail(queue)
          /\ ret' = "archives"
          /\ Goto("uploadFile")
          /\ UNCHANGED hasNewFiles
  /\ Step("none")
  /\ UNCHANGED <<cfgVars, dirVars, clockVars, stamp, sigPending, packVars, envLeft,
                 lastGap, delivered, attemptedIter, failedFirst,
                 moveFailed, pureVars>>

\* uploadFile that notes the time of the attempt only once the archive is open
UploadFile_StampAfterOpen ==
  /\ pc = "uploadFile"
  /\ LET wait == waitForUploadThrottle(sinceLastUpload)
         c    == ClockAfter(wait)
     IN  /\ lastGap' = c.up
         /\ sinceLastUpload' \in {0, c.up}
         /\ sinceTestStart' = c.idle
         /\ tickIn' = c.tin
         /\ tickPending' = c.pend
  /\ attemptedIter' = attemptedIter \cup {Base(cur)}
  /\ moveFailed' = FALSE
  /\ checkedCount' = 0
  /\ lastMove' = NoMove
  /\ \E result \in UploadResults :
        /\ lastUpload' = [name |-> Base(cur), kind |-> result.kind, status |-> result.status]
        /\ sinceLastUpload' = (IF result.kind = "open" THEN ClockAfter(waitForUploadThrottle(sinceLastUpload)).up ELSE 0)
        /\ IF result.kind = "open"
           THEN /\ ReturnFromJob
                /\ lastFail' = "upload"
                /\ UNCHANGED <<delivered, failedFirst>>
           ELSE IF result.kind = "transport"
           THEN /\ FatalInTestMode(ReturnFromJob)
                /\ lastFail' = "upload"
                /\ UNCHANGED <<delivered, failedFirst>>
           ELSE IF IsSuccess(result.status)
           THEN /\ Goto("deleteFile")
                /\ lastFail' = "none"
                /\ delivered' = delivered \cup {Base(cur)}
                /\ UNCHANGED failedFirst
           ELSE /\ FatalInTestMode(ReturnFromJob)
                /\ lastFail' = "upload"
                /\ failedFirst' =
                     IF ret = "areas"
                     THEN failedFirst \cup {[name |-> Base(cur),
                                              members |-> fileGroup.FilesToArchive,
                                              relocated |-> ~moveFailed,
                                              age |-> 0]}
                     ELSE failedFirst
                /\ UNCHANGED <<delivered>>
  /\ UNCHANGED <<cfgVars, dirVars, stamp, sigPending, queue, cur, ret, hasNewFiles,
                 packVars, envLeft, pureVars>>

\* uploadFile, called by makeJobForArchive: the throttle, the new
\* lastUploadTime, then the request
UploadFile ==
  /\ pc = "uploadFile"
  /\ LET wait == waitForUploadThrottle(sinceLastUpload)
         c    == ClockAfter(wait)
     IN  /\ lastGap' = c.up
         /\ sinceLastUpload' = 0
         /\ sinceTestStart' = c.idle
         /\ tickIn' = c.tin
         /\ tickPending' = c.pend
  /\ attemptedIter' = attemptedIter \cup {Base(cur)}
  /\ moveFailed' = FALSE
  /\ checkedCount' = 0
  /\ lastMove' = NoMove
  /\ \E result \in UploadResults :
        /\ lastUpload' = [name |-> Base(cur), kind |-> result.kind, status |-> result.status]
        /\ IF result.kind = "open"
           THEN /\ ReturnFromJob
                /\ lastFail' = "upload"
                /\ UNCHANGED <<delivered, failedFirst>>
           ELSE IF result.kind = "transport"
           THEN /\ FatalInTestMode(ReturnFromJob)
                /\ lastFail' = "upload"
                /\ UNCHANGED <<delivered, failedFirst>>
           ELSE IF IsSuccess(result.status)
           THEN /\ Goto("deleteFile")
                /\ lastFail' = "none"
                /\ delivered' = delivered \cup {Base(cur)}
                /\ UNCHANGED failedFirst
           ELSE /\ FatalInTestMode(ReturnFromJob)
                /\ lastFail' = "upload"
                /\ failedFirst' =
                     IF ret = "areas"
                     THEN failedFirst \cup {[name |-> Base(cur),
                                              members |-> fileGroup.FilesToArchive,
                                              relocated |-> ~moveFailed,
                                              age |-> 0]}
                     ELSE failedFirst
                /\ UNCHANGED <<delivered>>
  /\ UNCHANGED <<cfgVars, dirVars, stamp, sigPending, queue, cur, ret, hasNewFiles,
                 packVars, envLeft, pureVars>>

\* deleteFile, called by makeJobForArchive after uploadFile returned nil
DeleteFile ==
  /\ pc = "deleteFile"
  /\ \E removed \in BOOLEAN :
        IF removed
        THEN temp' = {a \in temp : a.name # Base(cur)} /\ Step("none")
        ELSE temp' = temp /\ Step("delete")
  /\ ReturnFromJob
  /\ UNCHANGED <<cfgVars, cam, proc, clockVars, stamp, sigPending, queue, cur, ret,
                 hasNewFiles, packVars, envLeft, lastGap, delivered, attemptedIter, failedFirst, moveFailed, pureVars>>

----------------------------------------------------------------------------
(* Area pipeline *)

Matching(area) == fileBrowser(area, CameraDirectory, fitsExt, Entries(cam))

\* makeJobForAreas that takes up an area as soon as it has a file
MakeJobForAreas_AnyFiles ==
  /\ pc = "makeJobForAreas"
  /\ areaIdx <= Len(areas)
  /\ lastUpload' = NoUpload
  /\ lastMove' = NoMove
  /\ \E readable \in BOOLEAN :
        IF ~readable
        THEN /\ NextArea
             /\ lastFail' = "discovery"
             /\ checkedCount' = 0
             /\ UNCHANGED hasNewFiles
        ELSE LET files == Matching(areas[areaIdx])
             IN  /\ lastFail' = "none"
                 /\ IF Len(files) >= 1
                    THEN /\ hasNewFiles' = TRUE
                         /\ checkedCount' = Len(files)
                         /\ Goto("packImagesForArea")
                    ELSE /\ hasNewFiles' = hasNewFiles
                         /\ checkedCount' = 0
                         /\ NextArea
  /\ UNCHANGED <<cfgVars, dirVars, clockVars, stamp, sigPending, queue, cur, ret,
                 packVars, envLeft, lastGap, delivered, attemptedIter,
                 failedFirst, moveFailed, pureVars>>

\* makeJobForAreas: the count check for the area at areaIdx
MakeJobForAreas ==
  /\ pc = "makeJobForAreas"
  /\ areaIdx <= Len(areas)
  /\ lastUpload' = NoUpload
  /\ lastMove' = NoMove
  /\ \E readable \in BOOLEAN :
        IF ~readable
        THEN /\ NextArea
             /\ lastFail' = "discovery"
             /\ checkedCount' = 0
             /\ UNCHANGED hasNewFiles
        ELSE LET files == Matching(areas[areaIdx])
             IN  /\ lastFail' = "none"
                 /\ IF Len(files) >= Count
                    THEN /\ hasNewFiles' = TRUE
                         /\ checkedCount' = Len(files)
                         /\ Goto("packImagesForArea")
                    ELSE /\ hasNewFiles' = hasNewFiles
                         /\ checkedCount' = 0
                         /\ NextArea
  /\ UNCHANGED <<cfgVars, dirVars, clockVars, stamp, sigPending, queue, cur, ret,
                 packVars, envLeft, lastGap, delivered, attemptedIter,
                 failedFirst, moveFailed, pureVars>>

\* makeJobForAreas that resets the timeout after every scan
AreasDone_ResetAlways ==
  /\ pc = "makeJobForAreas"
  /\ areaIdx > Len(areas)
  /\ sinceTestStart' = IF testMode THEN 0 ELSE sinceTestStart
  /\ Goto("checkTestTimeout")
  /\ Step("none")
  /\ UNCHANGED <<cfgVars, dirVars, sinceLastUpload, tickIn, tickPending, stamp,
                 sigPending, queue, cur, ret, hasNewFiles, packVars, envLeft, lastGap,
                 delivered, attemptedIter, failedFirst, moveFailed,
                 pureVars>>

\* makeJobForAreas after its loop: "Reset timeout when we find files"
AreasDone ==
  /\ pc = "makeJobForAreas"
  /\ areaIdx > Len(areas)
  /\ sinceTestStart' = IF testMode /\ hasNewFiles THEN 0 ELSE sinceTestStart
  /\ Goto("checkTestTimeout")
  /\ Step("none")
  /\ UNCHANGED <<cfgVars, dirVars, sinceLastUpload, tickIn, tickPending, stamp,
                 sigPending, queue, cur, ret, hasNewFiles, packVars, envLeft, lastGap,
                 delivered, attemptedIter, failedFirst, moveFailed,
                 pureVars>>

\* packImagesForArea up to the archive name: getImageFiles, the 5-second
\* wait, the name from the clock
PackImagesForArea ==
  /\ pc = "packImagesForArea"
  /\ \E readable \in BOOLEAN :
        IF ~readable
        THEN /\ NextArea
             /\ Step("discovery")
             /\ UNCHANGED <<clockVars, stamp, fileGroup, archiveFileName>>
        ELSE \E g \in getImageFiles(Matching(areas[areaIdx]), Count) :
               IF g.panic
               THEN /\ Exit(2)
                    /\ Step("panic")
                    /\ UNCHANGED <<clockVars, stamp, fileGroup, archiveFileName>>
               ELSE IF Len(g.FilesToArchive) = 0
               THEN /\ NextArea
                    /\ Step("none")
                    /\ UNCHANGED <<clockVars, stamp, fileGroup, archiveFileName>>
               ELSE /\ stamp < MaxStamp
                    /\ Sleep(settleDelay)
                    /\ stamp' = stamp + 1
                    /\ fileGroup' = g
                    /\ archiveFileName' =
                         Join(tempDirectory,
                              ArchiveName(Reading(stamp + 1), Prefix, areas[areaIdx],
                                          Postfix, archiveExt))
                    /\ StepInArea("none")
                    /\ Goto("createArchive")
  /\ UNCHANGED <<cfgVars, dirVars, sigPending, queue, cur, ret, hasNewFiles, attempt,
                 moveFiles, envLeft, lastGap, delivered, attemptedIter,
                 failedFirst, moveFailed, pureVars>>

\* packImagesForArea: chdir to the camera directory and createArchive.  The
\* archive is created when every member can be read; a failed creation
\* leaves a partial file or none.
CreateArchive ==
  /\ pc = "createArchive"
  /\ \E outcome \in {"chdir", "created", "failed", "partial"} :
        LET name == Base(archiveFileName)
            others == {a \in temp : a.name # name}
        IN  IF outcome = "created"
            THEN /\ \A i \in DOMAIN fileGroup.FilesToArchive :
                       fileGroup.FilesToArchive[i] \in cam
                 /\ temp' = others \cup {[name |-> name,
                                            members |-> fileGroup.FilesToArchive,
                                            integ |-> "untested"]}
                 /\ Step("none")
                 /\ Goto("testArchive")
            ELSE /\ temp' = IF outcome = "partial"
                            THEN others \cup {[name |-> name, members |-> <<>>,
                                                integ |-> "partial"]}
                            ELSE temp
                 /\ Step(IF outcome = "chdir" THEN "chdir" ELSE "create")
                 /\ FatalInTestMode(NextArea)
  /\ UNCHANGED <<cfgVars, cam, proc, clockVars, stamp, sigPending, queue, cur, ret,
                 hasNewFiles, packVars, envLeft, lastGap, delivered, attemptedIter, failedFirst, moveFailed, pureVars>>

\* the archive file at archiveFileName with its integrity mark set
Marked(mark) ==
  {IF a.name = Base(archiveFileName) THEN [a EXCEPT !.integ = mark] ELSE a : a \in temp}

\* packImagesForArea that goes on to moveImages whatever testArchive found
TestArchive_Ignored ==
  /\ pc = "testArchive"
  /\ \E outcome \in {"passed", "failed"} : temp' = Marked(outcome)
  /\ attempt' = 1
  /\ moveFiles' = fileGroup.FilesToDelete
  /\ Step("none")
  /\ Goto("moveImages")
  /\ UNCHANGED <<cfgVars, cam, proc, clockVars, stamp, sigPending, queue, cur, ret,
                 hasNewFiles, fileGroup, archiveFileName, envLeft, lastGap, delivered,
                 attemptedIter, failedFirst, moveFailed, pureVars>>

\* packImagesForArea: testArchive, then chdir back to the original directory
TestArchive ==
  /\ pc = "testArchive"
  /\ \E outcome \in {"passed", "failed", "chdir"} :
        IF outcome = "passed"
        THEN /\ temp' = Marked("passed")
             /\ attempt' = 1
             /\ moveFiles' = fileGroup.FilesToDelete
             /\ Step("none")
             /\ Goto("moveImages")
        ELSE /\ temp' = Marked(IF outcome = "failed" THEN "failed" ELSE "passed")
             /\ Step(IF outcome = "failed" THEN "integrity" ELSE "chdir")
             /\ UNCHANGED <<attempt, moveFiles>>
             /\ FatalInTestMode(NextArea)
  /\ UNCHANGED <<cfgVars, cam, proc, clockVars, stamp, sigPending, queue, cur, ret,
                 hasNewFiles, fileGroup, archiveFileName, envLeft, lastGap, delivered,
                 attemptedIter, failedFirst, moveFailed, pureVars>>

\* moveImages that takes no target to exist
targetExists_Never(file, processed) == FALSE

\* moveImages: "if _, err := os.Stat(targetPath); err == nil"
targetExists(file, processed) == Base(file) \in processed

\* the loop of moveImages keeping every file for the next attempt
moveAttempt_RetryAll(files, processed, ioFailed) ==
  LET done == Range(files) \ ioFailed
      removed == {Base(f) : f \in {g \in done : targetExists(g, processed)}}
      renamed == {Base(f) : f \in {g \in done : ~targetExists(g, processed)}}
  IN  [failedFiles |-> IF ioFailed = {} THEN <<>> ELSE files,
       removed     |-> removed,
       renamed     |-> renamed,
       overwritten |-> renamed \cap processed]

\* moveImages: the loop over files, given the files on which the call to
\* os.Remove or os.Rename returns an error.  A file whose target exists is
\* removed, any other is renamed onto its target.
moveAttempt(files, processed, ioFailed) ==
  LET done == Range(files) \ ioFailed
      Failed(f) == f \in ioFailed
      removed == {Base(f) : f \in {g \in done : targetExists(g, processed)}}
      renamed == {Base(f) : f \in {g \in done : ~targetExists(g, processed)}}
  IN  [failedFiles |-> SelectSeq(files, Failed),
       removed     |-> removed,
       renamed     |-> renamed,
       overwritten |-> renamed \cap processed]

\* moveImages: one attempt over the files still to move.  The call for a
\* file may fail, and fails when the source is gone.
MoveImages ==
  /\ pc = "moveImages"
  /\ \E ioFailed \in SUBSET Range(moveFiles) :
        LET m == moveAttempt(moveFiles, proc, ioFailed)
        IN  /\ \A f \in Range(moveFiles) : Base(f) \notin cam => f \in ioFailed
            /\ cam' = cam \ (m.removed \cup m.renamed)
            /\ proc' = proc \cup m.renamed
            /\ lastMove' = [ioFailed    |-> {Base(f) : f \in ioFailed},
                            removed     |-> m.removed,
                            renamed     |-> m.renamed,
                            overwritten |-> m.overwritten]
            /\ IF Len(m.failedFiles) = 0
               THEN /\ cur' = archiveFileName
                    /\ ret' = "areas"
                    /\ Goto("uploadFile")
                    /\ StepInMove("none")
                    /\ UNCHANGED <<clockVars, attempt, moveFiles, moveFailed>>
               ELSE IF attempt = maxRetries
               THEN /\ StepInMove("relocation")
                    /\ moveFailed' = TRUE
                    /\ cur' = IF testMode THEN cur ELSE archiveFileName
                    /\ ret' = IF testMode THEN ret ELSE "areas"
                    /\ FatalInTestMode(Goto("uploadFile"))
                    /\ UNCHANGED <<clockVars, attempt, moveFiles>>
               ELSE /\ Sleep(retryDelay)
                    /\ moveFiles' = m.failedFiles
                    /\ attempt' = attempt + 1
                    /\ Goto("moveImages")
                    /\ StepInMove("none")
                    /\ UNCHANGED <<cur, ret, moveFailed>>
  /\ UNCHANGED <<cfgVars, temp, stamp, sigPending, queue, hasNewFiles, fileGroup,
                 archiveFileName, envLeft, lastGap, delivered, attemptedIter, failedFirst, pureVars>>

----------------------------------------------------------------------------
(* Controller *)

\* checkTestTimeout that never ends the process
CheckTestTimeout_NoExit ==
  /\ pc = "checkTestTimeout"
  /\ Goto("select")
  /\ Step("none")
  /\ UNCHANGED <<cfgVars, dirVars, clockVars, stamp, sigPending, queue, cur, ret,
                 hasNewFiles, packVars, envLeft, lastGap, delivered, attemptedIter,
                 failedFirst, moveFailed, pureVars>>

\* checkTestTimeout, the last statement of programLoop
CheckTestTimeout ==
  /\ pc = "checkTestTimeout"
  /\ IF testMode /\ sinceTestStart > testTimeout THEN Exit(0) ELSE Goto("select")
  /\ Step("none")
  /\ UNCHANGED <<cfgVars, dirVars, clockVars, stamp, sigPending, queue, cur, ret,
                 hasNewFiles, packVars, envLeft, lastGap, delivered, attemptedIter, failedFirst, moveFailed, pureVars>>

\* a select whose ticker channel keeps the ticks that fired meanwhile
SelectTick_TicksQueue ==
  /\ pc = "select"
  /\ tickPending \/ ~sigPending
  /\ IF tickPending
     THEN UNCHANGED <<sinceLastUpload, sinceTestStart, tickIn>>
     ELSE /\ sinceLastUpload' = ClockAfter(tickIn).up
          /\ sinceTestStart' = ClockAfter(tickIn).idle
          /\ tickIn' = ClockAfter(tickIn).tin
  /\ tickPending' = tickPending
  /\ Goto("makeJobForArchives")
  /\ UNCHANGED <<cfgVars, dirVars, stamp, sigPending, queue, cur, ret, hasNewFiles,
                 packVars, envLeft, histVars, pureVars>>

\* run: the select receives a tick (one that is waiting in the channel, or
\* the next one, when no signal is waiting) and calls programLoop
SelectTick ==
  /\ pc = "select"
  /\ tickPending \/ ~sigPending
  /\ IF tickPending
     THEN UNCHANGED <<sinceLastUpload, sinceTestStart, tickIn>>
     ELSE /\ sinceLastUpload' = ClockAfter(tickIn).up
          /\ sinceTestStart' = ClockAfter(tickIn).idle
          /\ tickIn' = ClockAfter(tickIn).tin
  /\ tickPending' = FALSE
  /\ Goto("makeJobForArchives")
  /\ UNCHANGED <<cfgVars, dirVars, stamp, sigPending, queue, cur, ret, hasNewFiles,
                 packVars, envLeft, histVars, pureVars>>

\* a select that receives the signal and goes on waiting
SelectSignal_Continue ==
  /\ pc = "select"
  /\ sigPending
  /\ sigPending' = FALSE
  /\ UNCHANGED <<cfgVars, dirVars, clockVars, stamp, pc, exitCode, areaIdx, queue, cur,
                 ret, hasNewFiles, packVars, envLeft, histVars, pureVars>>

\* run: the select receives the signal; run returns and main ends
SelectSignal ==
  /\ pc = "select"
  /\ sigPending
  /\ sigPending' = FALSE
  /\ Exit(0)
  /\ UNCHANGED <<cfgVars, dirVars, clockVars, stamp, queue, cur, ret, hasNewFiles,
                 packVars, envLeft, histVars, pureVars>>

----------------------------------------------------------------------------
(* Environment *)

\* SIGINT or SIGTERM is delivered to the process (signal.Notify, buffer 1)
Signal ==
  /\ pc # "exit"
  /\ ~sigPending
  /\ sigPending' = TRUE
  /\ UNCHANGED <<cfgVars, dirVars, clockVars, stamp, pc, exitCode, areaIdx, queue, cur,
                 ret, hasNewFiles, packVars, envLeft, histVars, pureVars>>

\* the camera writes a file into the camera directory
CameraWrites ==
  /\ pc # "exit"
  /\ envLeft > 0
  /\ \E n \in Unsettled \ cam : cam' = cam \cup {n}
  /\ envLeft' = envLeft - 1
  /\ UNCHANGED <<cfgVars, proc, temp, clockVars, stamp, pc, exitCode, areaIdx,
                 sigPending, queue, cur, ret, hasNewFiles, packVars, histVars, pureVars>>

\* something other than this process removes a file from the camera directory
CameraLoses ==
  /\ pc # "exit"
  /\ envLeft > 0
  /\ \E n \in cam \cap Unsettled : cam' = cam \ {n}
  /\ envLeft' = envLeft - 1
  /\ UNCHANGED <<cfgVars, proc, temp, clockVars, stamp, pc, exitCode, areaIdx,
                 sigPending, queue, cur, ret, hasNewFiles, packVars, histVars, pureVars>>

Next ==
  \/ MakeJobForArchives \/ ArchivesLoop \/ UploadFile \/ DeleteFile
  \/ MakeJobForAreas \/ AreasDone \/ PackImagesForArea \/ CreateArchive
  \/ TestArchive \/ MoveImages
  \/ CheckTestTimeout \/ SelectTick \/ SelectSignal
  \/ Signal \/ CameraWrites \/ CameraLoses

Spec == Init /\ [][Next]_vars

----------------------------------------------------------------------------
(* getImageFiles and fileBrowser applied on their own *)

\* a call made outside the pipeline: no mode, an empty scratch directory
CallStart ==
  /\ testMode = FALSE
  /\ archiveExt \in ConfigArchiveExts
  /\ temp = {}
  /\ proc = {}
  /\ PipelineStart
  /\ output = <<>>

\* every order in which a directory listing may hand out some of the names
Listings(names) ==
  {l \in UNION {[1..k -> names] : k \in 0..Cardinality(names)} :
      \A i, j \in DOMAIN l : i # j => l[i] # l[j]}

\* files of area A in the camera directory, two of them with the same key
SortNames == {FileA1, FileA2, FileASF, FileASF2}

InitSort ==
  /\ Count \in ConfigCounts
  /\ cam = SortNames
  /\ input \in {[i \in DOMAIN l |-> Join(CameraDirectory, l[i])] : l \in Listings(SortNames)}
  /\ pc = "getImageFiles"
  /\ CallStart

\* getImageFiles from the sort on, for the listed files in input
CallGetImageFiles ==
  /\ pc = "getImageFiles"
  /\ \E g \in getImageFiles(input, Count) : output' = g
  /\ pc' = "returned"
  /\ UNCHANGED <<cfgVars, dirVars, clockVars, stamp, exitCode, sigPending, loopVars,
                 packVars, envLeft, histVars, input>>

SpecSort == InitSort /\ [][CallGetImageFiles]_vars

\* directory entries around the pattern of area A and extension .fts
FileA1Part == FileA1 \o <<".", "p", "a", "r", "t">>
FileA1Fit  == <<"A", "_", "1">> \o ExtFit
FileANoSep == <<"A", "1">> \o ExtFts
BrowseEntries ==
  Entries({FileA1, FileASF, FileB1, FileA1Part, FileA1Fit, FileANoSep})
    \cup {[name |-> FileA2, isDir |-> TRUE]}

InitBrowse ==
  /\ Count \in {MaxCount}
  /\ cam = {}
  /\ input \in SUBSET BrowseEntries
  /\ pc = "fileBrowser"
  /\ CallStart

\* fileBrowser(AreaA, CameraDirectory, ExtFts) on a directory holding input
CallFileBrowser ==
  /\ pc = "fileBrowser"
  /\ output' = fileBrowser(AreaA, CameraDirectory, ExtFts, input)
  /\ pc' = "returned"
  /\ UNCHANGED <<cfgVars, dirVars, clockVars, stamp, exitCode, sigPending, loopVars,
                 packVars, envLeft, histVars, input>>

SpecBrowse == InitBrowse /\ [][CallFileBrowser]_vars


----------------------------------------------------------------------------
(* moveImages applied on its own, once and again, to the batch of area A *)

MaxCalls == 2

\* the files of area A as getImageFiles hands them to moveImages
MoveBatch == <<Join(CameraDirectory, FileA1), Join(CameraDirectory, FileA2)>>

\* the processed directory holds any of the files already; the file the
\* camera has not settled may be gone
InitMove ==
  /\ testMode \in BOOLEAN
  /\ Count = MaxCount
  /\ archiveExt \in ConfigArchiveExts
  /\ cam \in {InitialCamera, InitialCamera \ Unsettled}
  /\ proc \in SUBSET InitialCamera
  /\ temp = {}
  /\ PipelineStart
  /\ pc = "callMoveImages"
  /\ input = MoveBatch
  /\ output = <<>>

\* moveImages(files) is called with the batch, the first time or after the
\* call before has returned; output keeps the directories each call found
CallMoveImages ==
  /\ pc \in {"callMoveImages", "uploadFile"}
  /\ Len(output) < MaxCalls
  /\ output' = Append(output, [camera |-> cam, processed |-> proc])
  /\ moveFiles' = input
  /\ attempt' = 1
  /\ pc' = "moveImages"
  /\ UNCHANGED <<cfgVars, dirVars, clockVars, stamp, exitCode, sigPending, loopVars,
                 fileGroup, archiveFileName, envLeft, histVars, input>>

SpecMove == InitMove /\ [][CallMoveImages \/ MoveImages]_vars

----------------------------------------------------------------------------
(* The namer's format and sortByArchiveName applied on their own *)

MaxNameReading == 3

\* SAI_PREFIX, the areas and SAI_POSTFIX a configuration may hold
NamePrefixes  == {<<>>, <<"P", "_">>, <<"-">>}
NameAreas     == {AreaA, <<"A", "_", "B">>, <<"A", "-", "S", "F">>}
NamePostfixes == {<<>>, <<"_", "P">>, <<"_">>, <<"-">>, <<"P">>}
\* wall-clock readings on both sides of a midnight
NameReadings  == {Reading(k) : k \in 0..MaxNameReading}

\* two archives are to be named, each for an area at a wall-clock reading
InitName ==
  /\ testMode = FALSE
  /\ Count = MaxCount
  /\ archiveExt \in {ExtZip, ExtRar}
  /\ cam = {}
  /\ proc = {}
  /\ temp = {}
  /\ PipelineStart
  /\ pc = "formatNames"
  /\ input \in [prefix : NamePrefixes, postfix : NamePostfixes,
                stamps : [1..2 -> [area : NameAreas, now : NameReadings]]]
  /\ output = <<>>

\* packImagesForArea: the archive file names for the stamps in input
FormatArchiveNames ==
  /\ pc = "formatNames"
  /\ output' = [i \in 1..2 |->
                  Join(tempDirectory,
                       ArchiveName(input.stamps[i].now, input.prefix,
                                   input.stamps[i].area, input.postfix, archiveExt))]
  /\ pc' = "sortByArchiveName"
  /\ UNCHANGED <<cfgVars, dirVars, clockVars, stamp, exitCode, sigPending, loopVars,
                 packVars, envLeft, histVars, input>>

\* sortByArchiveName on each of the names
CallSortByArchiveName ==
  /\ pc = "sortByArchiveName"
  /\ output' = [names |-> output,
                keys  |-> [i \in 1..2 |->
                             sortByArchiveName(output[i], archiveExt, input.postfix)]]
  /\ pc' = "returned"
  /\ UNCHANGED <<cfgVars, dirVars, clockVars, stamp, exitCode, sigPending, loopVars,
                 packVars, envLeft, histVars, input>>

SpecName == InitName /\ [][FormatArchiveNames \/ CallSortByArchiveName]_vars

----------------------------------------------------------------------------
(* SAI_ARCHIVE_MODE as loadConfig reads it, and determineArchiveSettings *)

\* strings.ToLower on the letters an archive mode is written with
ToLowerChar(c) ==
  CASE c = "A" -> "a" [] c = "I" -> "i" [] c = "O" -> "o" [] c = "P" -> "p"
    [] c = "R" -> "r" [] c = "T" -> "t" [] c = "U" -> "u" [] c = "Z" -> "z"
    [] OTHER -> c

ToLower(s) == [i \in DOMAIN s |-> ToLowerChar(s[i])]

IsSpace(c) == c \in {" ", "\t"}

\* strings.TrimSpace
RECURSIVE TrimSpace(_)
TrimSpace(s) ==
  IF s = <<>> THEN s
  ELSE IF IsSpace(Head(s)) THEN TrimSpace(Tail(s))
  ELSE IF IsSpace(s[Len(s)]) THEN TrimSpace(SubSeq(s, 1, Len(s) - 1))
  ELSE s

ModeAuto == <<"a", "u", "t", "o">>
ModeRar  == <<"r", "a", "r">>
ModeZip  == <<"z", "i", "p">>
ModeZipUncompressed == ModeZip \o <<"-", "u", "n", "c", "o", "m", "p", "r", "e", "s", "s", "e", "d">>

\* loadConfig: the default, and "case SAI_ARCHIVE_MODE"
loadArchiveMode(value) ==
  LET mode == TrimSpace(ToLower(value))
  IN  IF mode # <<>> THEN mode ELSE ModeAuto

\* findRARExecutable: rar in PATH, rar.exe of a WinRAR installation, or none
FindRAROutcomes ==
  {[rarPath |-> "/usr/bin/rar", rarAvailable |-> TRUE],
   [rarPath |-> "C:\\Program Files\\WinRAR\\rar.exe", rarAvailable |-> TRUE],
   [rarPath |-> "", rarAvailable |-> FALSE]}

\* determineArchiveSettings that takes the rar mode at its word
determineArchiveSettings_RarUnchecked(ArchiveMode, found) ==
  [useRAR        |-> IF ArchiveMode = ModeRar THEN TRUE
                     ELSE IF ArchiveMode \in {ModeZip, ModeZipUncompressed} THEN FALSE
                     ELSE found.rarAvailable,
   zipCompressed |-> ArchiveMode # ModeZipUncompressed,
   archiveExt    |-> IF ArchiveMode = ModeRar THEN ExtRar
                     ELSE IF ArchiveMode \in {ModeZip, ModeZipUncompressed} THEN ExtZip
                     ELSE IF found.rarAvailable THEN ExtRar ELSE ExtZip,
   rarPath       |-> found.rarPath]

\* determineArchiveSettings, given what findRARExecutable returned
determineArchiveSettings(ArchiveMode, found) ==
  LET default == [useRAR |-> FALSE, zipCompressed |-> TRUE, archiveExt |-> ExtZip,
                  rarPath |-> found.rarPath]
      rar     == [default EXCEPT !.useRAR = TRUE, !.archiveExt = ExtRar]
  IN  CASE ArchiveMode = ModeRar -> IF found.rarAvailable THEN rar ELSE default
        [] ArchiveMode = ModeZip -> default
        [] ArchiveMode = ModeZipUncompressed -> [default EXCEPT !.zipCompressed = FALSE]
        [] OTHER -> IF found.rarAvailable THEN rar ELSE default

\* values SAI_ARCHIVE_MODE may be given in config.env
ArchiveModeValues ==
  {<<>>, <<" ">>, ModeAuto, <<"A", "U", "T", "O">>, ModeRar, <<"R", "a", "r">>,
   <<" ">> \o ModeRar \o <<" ">>, ModeZip, <<"Z", "I", "P">>, ModeZip \o <<"\t">>,
   ModeZipUncompressed, <<"7", "z">>, ModeRar \o <<"5">>, <<"z", "i">>}

InitArchive ==
  /\ Count = MaxCount
  /\ cam = {}
  /\ CallStart
  /\ input \in [value : ArchiveModeValues, found : FindRAROutcomes]
  /\ pc = "loadConfig"

\* loadConfig: SAI_ARCHIVE_MODE
LoadArchiveMode ==
  /\ pc = "loadConfig"
  /\ output' = [ArchiveMode |-> loadArchiveMode(input.value)]
  /\ pc' = "determineArchiveSettings"
  /\ UNCHANGED <<cfgVars, dirVars, clockVars, stamp, exitCode, sigPending, loopVars,
                 packVars, envLeft, histVars, input>>

\* NewAstroCam: determineArchiveSettings(config)
CallDetermineArchiveSettings ==
  /\ pc = "determineArchiveSettings"
  /\ output' = [ArchiveMode |-> output.ArchiveMode,
                settings    |-> determineArchiveSettings(output.ArchiveMode, input.found)]
  /\ pc' = "returned"
  /\ UNCHANGED <<cfgVars, dirVars, clockVars, stamp, exitCode, sigPending, loopVars,
                 packVars, envLeft, histVars, input>>

SpecArchive == InitArchive /\ [][LoadArchiveMode \/ CallDetermineArchiveSettings]_vars

----------------------------------------------------------------------------
(* SAI_USERNAME and SAI_PASSWORD as loadConfig reads them, and the        *)
(* Authorization header uploadFile sets                                   *)

\* loadConfig: the value of a "key=value" line, trimmed and cut at a '#',
\* as "case SAI_USERNAME" and "case SAI_PASSWORD" store it
loadCredential(text) ==
  LET value      == TrimSpace(text)
      commentPos == Index(value, <<"#">>)
      cut        == IF commentPos # -1 THEN TrimSpace(Slice(value, 0, commentPos)) ELSE value
  IN  TrimSpace(cut)

\* hasCredentials content with one of the two
hasCredentials_Either(config) == config.Username # <<>> \/ config.Password # <<>>

\* hasCredentials
hasCredentials(config) == config.Username # <<>> /\ config.Password # <<>>

NoAuthorization == [set |-> FALSE, username |-> <<>>, password |-> <<>>]

\* uploadFile: "if ac.hasCredentials() { req.SetBasicAuth(...) }"
authorization(config) ==
  IF hasCredentials(config)
  THEN [set |-> TRUE, username |-> config.Username, password |-> config.Password]
  ELSE NoAuthorization

\* what config.env may hold after "SAI_USERNAME=" or "SAI_PASSWORD="
CredentialTexts ==
  {<<>>, <<" ">>, <<"\t", " ">>, <<"u">>, <<" ", "u", " ">>, <<"u", " ", "v">>,
   <<"p", "#", "q">>, <<"#", "p">>, <<"u", " ", "#", " ", "c">>}

InitAuth ==
  /\ Count = MaxCount
  /\ cam = {}
  /\ CallStart
  /\ input \in [username : CredentialTexts, password : CredentialTexts]
  /\ pc = "loadConfig"

\* loadConfig: SAI_USERNAME and SAI_PASSWORD
LoadCredentials ==
  /\ pc = "loadConfig"
  /\ output' = [Username |-> loadCredential(input.username),
                Password |-> loadCredential(input.password)]
  /\ pc' = "uploadFile.request"
  /\ UNCHANGED <<cfgVars, dirVars, clockVars, stamp, exitCode, sigPending, loopVars,
                 packVars, envLeft, histVars, input>>

\* uploadFile: the request is given its headers
SetRequestHeaders ==
  /\ pc = "uploadFile.request"
  /\ output' = [Username |-> output.Username, Password |-> output.Password,
                Authorization |-> authorization(output)]
  /\ pc' = "returned"
  /\ UNCHANGED <<cfgVars, dirVars, clockVars, stamp, exitCode, sigPending, loopVars,
                 packVars, envLeft, histVars, input>>

SpecAuth == InitAuth /\ [][LoadCredentials \/ SetRequestHeaders]_vars

----------------------------------------------------------------------------
(* The working directory of the process through packImagesForArea and the *)
(* upload that follows: output holds the directory the process is in, the *)
(* originalDir of the call in progress, its result, and for every step     *)
(* that ran the directory it ran in                                        *)

StartDirectory == "start"

\* os.Getwd: the working directory, or "" with an error
Getwd(wd) == {wd, ""}

\* os.Chdir(dir): the working directory afterwards; it may fail, and does
\* for the empty path
Chdir(dir, wd) ==
  IF dir = "" THEN {[ok |-> FALSE, wd |-> wd]}
  ELSE {[ok |-> TRUE, wd |-> dir], [ok |-> FALSE, wd |-> wd]}

InitChdir ==
  /\ testMode \in BOOLEAN
  /\ Count = MaxCount
  /\ archiveExt \in ConfigArchiveExts
  /\ cam = InitialCamera
  /\ proc = {}
  /\ temp = {}
  /\ PipelineStart
  /\ input = StartDirectory
  /\ output = [wd |-> StartDirectory, originalDir |-> "", entry |-> "", result |-> "",
               calls |-> 0, ran |-> <<>>]
  /\ pc = "makeJobForArea"

Ran(op, wd) == Append(output.ran, [op |-> op, wd |-> wd, entry |-> output.entry])

WdFrame ==
  UNCHANGED <<cfgVars, dirVars, clockVars, stamp, sigPending, loopVars, packVars,
              envLeft, histVars, input>>

\* a failed step of packImagesForArea: os.Exit(1) in test mode, else the
\* return of ERROR, which runs the deferred os.Chdir
FailPack ==
  IF testMode THEN pc' = "exit" /\ exitCode' = 1
  ELSE pc' = "deferred" /\ exitCode' = exitCode

\* packImagesForArea: os.Getwd, the defer, getImageFiles and the wait
EnterPackImagesForArea ==
  /\ pc = "makeJobForArea"
  /\ output.calls < MaxCalls
  /\ \E dir \in Getwd(output.wd), found \in {"error", "empty", "files"} :
        /\ output' = [output EXCEPT !.originalDir = dir, !.entry = output.wd,
                                    !.calls = @ + 1,
                                    !.result = IF found = "files" THEN "" ELSE found]
        /\ pc' = IF found = "files" THEN "chdirCamera" ELSE "deferred"
  /\ exitCode' = exitCode
  /\ WdFrame

\* packImagesForArea: "Change to camera directory"
ChdirCamera ==
  /\ pc = "chdirCamera"
  /\ \E c \in Chdir(CameraDirectory, output.wd) :
        /\ output' = [output EXCEPT !.wd = c.wd, !.result = IF c.ok THEN "" ELSE "error"]
        /\ IF c.ok THEN pc' = "createArchive.wd" /\ exitCode' = exitCode ELSE FailPack
  /\ WdFrame

\* packImagesForArea: createArchive
CreateArchiveInWd ==
  /\ pc = "createArchive.wd"
  /\ \E ok \in BOOLEAN :
        /\ output' = [output EXCEPT !.ran = Ran("createArchive", output.wd),
                                    !.result = IF ok THEN "" ELSE "error"]
        /\ IF ok THEN pc' = "testArchive.wd" /\ exitCode' = exitCode ELSE FailPack
  /\ WdFrame

\* packImagesForArea: testArchive
TestArchiveInWd ==
  /\ pc = "testArchive.wd"
  /\ \E ok \in BOOLEAN :
        /\ output' = [output EXCEPT !.ran = Ran("testArchive", output.wd),
                                    !.result = IF ok THEN "" ELSE "error"]
        /\ IF ok THEN pc' = "chdirBack" /\ exitCode' = exitCode ELSE FailPack
  /\ WdFrame

\* packImagesForArea: "Change back to original directory before moving files"
ChdirBack ==
  /\ pc = "chdirBack"
  /\ \E c \in Chdir(output.originalDir, output.wd) :
        /\ output' = [output EXCEPT !.wd = c.wd, !.result = IF c.ok THEN "" ELSE "error"]
        /\ IF c.ok THEN pc' = "moveImages.wd" /\ exitCode' = exitCode ELSE FailPack
  /\ WdFrame

\* packImagesForArea: moveImages, which returns nil or ends the process
MoveImagesInWd ==
  /\ pc = "moveImages.wd"
  /\ \E ok \in BOOLEAN :
        /\ output' = [output EXCEPT !.ran = Ran("moveImages", output.wd),
                                    !.result = "success"]
        /\ IF ok \/ ~testMode
           THEN pc' = "deferred" /\ exitCode' = exitCode
           ELSE pc' = "exit" /\ exitCode' = 1
  /\ WdFrame

\* packImagesForArea returns: "defer os.Chdir(originalDir)", then
\* makeJobForArea goes on to makeJobForArchive for an archive, else returns
DeferredChdir ==
  /\ pc = "deferred"
  /\ \E c \in Chdir(output.originalDir, output.wd) :
        output' = [output EXCEPT !.wd = c.wd, !.ran = Ran("return", c.wd)]
  /\ pc' = IF output.result = "success" THEN "uploadFile.wd" ELSE "makeJobForArea"
  /\ exitCode' = exitCode
  /\ WdFrame

\* makeJobForArchive: uploadFile and deleteFile
UploadFileInWd ==
  /\ pc = "uploadFile.wd"
  /\ \E ok \in BOOLEAN :
        /\ output' = [output EXCEPT !.ran = Ran("uploadFile", output.wd)]
        /\ IF ok \/ ~testMode
           THEN pc' = "makeJobForArea" /\ exitCode' = exitCode
           ELSE pc' = "exit" /\ exitCode' = 1
  /\ WdFrame

NextChdir ==
  \/ EnterPackImagesForArea \/ ChdirCamera \/ CreateArchiveInWd \/ TestArchiveInWd
  \/ ChdirBack \/ MoveImagesInWd \/ DeferredChdir \/ UploadFileInWd

SpecChdir == InitChdir /\ [][NextChdir]_vars

----------------------------------------------------------------------------
(* SAI_INTERVAL and SAI_COUNT as loadConfig reads them, and the period of *)
(* the ticker run starts                                                   *)

DEFAULT_INTERVAL == 15
MAX_INTERVAL == 86400
DEFAULT_COUNT == 3

DecimalDigits == <<"0", "1", "2", "3", "4", "5", "6", "7", "8", "9">>

IsDigit(c) == \E d \in DOMAIN DecimalDigits : DecimalDigits[d] = c

DigitValue(c) == (CHOOSE d \in DOMAIN DecimalDigits : DecimalDigits[d] = c) - 1

RECURSIVE DecimalValue(_)
DecimalValue(digits) ==
  IF digits = <<>> THEN 0
  ELSE 10 * DecimalValue(SubSeq(digits, 1, Len(digits) - 1)) + DigitValue(digits[Len(digits)])

\* strconv.Atoi: an optional sign and at least one decimal digit, nothing else
Atoi(s) ==
  LET signed == s # <<>> /\ s[1] \in {"+", "-"}
      digits == IF signed THEN Tail(s) ELSE s
  IN  IF digits = <<>> \/ \E i \in DOMAIN digits : ~IsDigit(digits[i])
      THEN [err |-> TRUE, val |-> 0]
      ELSE [err |-> FALSE,
            val |-> IF signed /\ s[1] = "-" THEN 0 - DecimalValue(digits)
                    ELSE DecimalValue(digits)]

\* loadConfig: the value of a "key=value" line, trimmed and without an
\* inline comment
loadValue(text) ==
  LET value      == TrimSpace(text)
      commentPos == Index(value, <<"#">>)
  IN  IF commentPos # -1 THEN TrimSpace(Slice(value, 0, commentPos)) ELSE value

\* "case SAI_INTERVAL" that stores whatever number it reads
loadInterval_NoMaximum(config, value) ==
  IF value = <<>> \/ Atoi(value).err
  THEN [config EXCEPT !.RequestedInterval = DEFAULT_INTERVAL, !.Interval = DEFAULT_INTERVAL]
  ELSE [config EXCEPT !.RequestedInterval = Atoi(value).val, !.Interval = Atoi(value).val]

\* loadConfig: "case SAI_INTERVAL"
loadInterval(config, value) ==
  IF value = <<>> \/ Atoi(value).err
  THEN [config EXCEPT !.RequestedInterval = DEFAULT_INTERVAL, !.Interval = DEFAULT_INTERVAL]
  ELSE IF Atoi(value).val > MAX_INTERVAL
  THEN [config EXCEPT !.RequestedInterval = Atoi(value).val, !.Interval = DEFAULT_INTERVAL]
  ELSE [config EXCEPT !.RequestedInterval = Atoi(value).val, !.Interval = Atoi(value).val]

\* loadConfig: "case SAI_COUNT"
loadCount(config, value) ==
  IF ~Atoi(value).err THEN [config EXCEPT !.Count = Atoi(value).val] ELSE config

\* loadConfig: the Config it starts from
DefaultConfig ==
  [Interval |-> DEFAULT_INTERVAL, RequestedInterval |-> DEFAULT_INTERVAL,
   Count |-> DEFAULT_COUNT]

\* a key of config.env: no line for it, or a line with this text after "="
NoLine == [set |-> FALSE, text |-> <<>>]
Line(text) == [set |-> TRUE, text |-> text]

IntervalTexts ==
  {<<>>, <<"0">>, <<"-", "5">>, <<"1", "0">>, <<"1", "4">>, <<"1", "5">>, <<"1", "6">>,
   <<" ", "6", "0", " ">>, <<"+", "2", "0">>, <<"3", "0", " ", "#", "s">>,
   <<"8", "6", "4", "0", "0">>, <<"8", "6", "4", "0", "1">>, <<"9", "0", "0", "0", "0", "0">>,
   <<"1", ".", "5">>, <<"x">>}

CountTexts ==
  {<<>>, <<"0">>, <<"-", "1">>, <<"1">>, <<"2">>, <<" ", "5">>, <<"3", "#">>, <<"t", "w", "o">>}

InitConfig ==
  /\ Count = MaxCount
  /\ cam = {}
  /\ CallStart
  /\ input \in [interval : {NoLine} \cup {Line(t) : t \in IntervalTexts},
                count    : {NoLine} \cup {Line(t) : t \in CountTexts}]
  /\ pc = "loadConfig"

\* loadConfig: the lines SAI_INTERVAL and SAI_COUNT of config.env
LoadConfig ==
  /\ pc = "loadConfig"
  /\ LET withInterval == IF input.interval.set
                         THEN loadInterval(DefaultConfig, loadValue(input.interval.text))
                         ELSE DefaultConfig
     IN  output' = [config |-> IF input.count.set
                               THEN loadCount(withInterval, loadValue(input.count.text))
                               ELSE withInterval,
                    period |-> 0]
  /\ pc' = "run"
  /\ UNCHANGED <<cfgVars, dirVars, clockVars, stamp, exitCode, sigPending, loopVars,
                 packVars, envLeft, histVars, input>>

\* run: the actual interval and time.NewTicker
StartTicker ==
  /\ pc = "run"
  /\ output' = [output EXCEPT !.period = actualInterval(output.config.Interval)]
  /\ pc' = "select"
  /\ UNCHANGED <<cfgVars, dirVars, clockVars, stamp, exitCode, sigPending, loopVars,
                 packVars, envLeft, histVars, input>>

SpecConfig == InitConfig /\ [][LoadConfig \/ StartTicker]_vars

----------------------------------------------------------------------------
(* getImageFiles on paths written out character by character: the paths   *)
(* fileBrowser joins, and the two lists getImageFiles builds from them    *)

Slash == "/"

\* the elements of a path between its separators
RECURSIVE SplitPath(_)
SplitPath(path) ==
  LET pos == Index(path, <<Slash>>)
  IN  IF pos = -1 THEN <<path>>
      ELSE <<Slice(path, 0, pos)>> \o SplitPath(Slice(path, pos + 1, Len(path)))

RECURSIVE JoinElements(_)
JoinElements(elements) ==
  IF elements = <<>> THEN <<>>
  ELSE IF Len(elements) = 1 THEN elements[1]
  ELSE elements[1] \o <<Slash>> \o JoinElements(Tail(elements))

\* filepath.Clean, element by element: empty and "." elements go, ".."
\* takes back the element before it
RECURSIVE CleanElements(_, _, _)
CleanElements(elements, rooted, kept) ==
  IF elements = <<>> THEN kept
  ELSE LET e == Head(elements)
           rest == Tail(elements)
       IN  IF e = <<>> \/ e = <<".">> THEN CleanElements(rest, rooted, kept)
           ELSE IF e = <<".", ".">>
           THEN IF kept # <<>> /\ kept[Len(kept)] # <<".", ".">>
                THEN CleanElements(rest, rooted, SubSeq(kept, 1, Len(kept) - 1))
                ELSE IF rooted THEN CleanElements(rest, rooted, kept)
                ELSE CleanElements(rest, rooted, Append(kept, e))
           ELSE CleanElements(rest, rooted, Append(kept, e))

filepathIsAbs(path) == path # <<>> /\ path[1] = Slash

\* filepath.Clean
filepathClean(path) ==
  LET kept == CleanElements(SplitPath(path), filepathIsAbs(path), <<>>)
  IN  IF filepathIsAbs(path) THEN <<Slash>> \o JoinElements(kept)
      ELSE IF kept = <<>> THEN <<".">>
      ELSE JoinElements(kept)

\* filepath.Join(dir, name)
filepathJoin(dir, name) ==
  IF dir = <<>> /\ name = <<>> THEN <<>>
  ELSE IF dir = <<>> THEN filepathClean(name)
  ELSE IF name = <<>> THEN filepathClean(dir)
  ELSE filepathClean(dir \o <<Slash>> \o name)

RECURSIVE TrimSlashes(_)
TrimSlashes(path) ==
  IF path # <<>> /\ path[Len(path)] = Slash
  THEN TrimSlashes(SubSeq(path, 1, Len(path) - 1))
  ELSE path

\* filepath.Base
filepathBase(path) ==
  IF path = <<>> THEN <<".">>
  ELSE LET trimmed == TrimSlashes(path)
           pos     == LastIndex(trimmed, <<Slash>>)
       IN  IF trimmed = <<>> THEN <<Slash>>
           ELSE Slice(trimmed, pos + 1, Len(trimmed))

\* filepath.Abs; wd is what os.Getwd returns
filepathAbs(path, wd) ==
  IF filepathIsAbs(path) THEN [err |-> FALSE, path |-> filepathClean(path)]
  ELSE IF wd.err THEN [err |-> TRUE, path |-> <<>>]
  ELSE [err |-> FALSE, path |-> filepathJoin(wd.dir, path)]

\* the loop of getImageFiles filling the relocation list back to front
TakeFilePaths_Reversed(sorted, count, wd) ==
  LET maxFiles == IF Len(sorted) < count THEN Len(sorted) ELSE count
  IN  [FilesToArchive |-> [i \in 1..maxFiles |-> filepathBase(sorted[i])],
       FilesToDelete  |-> [i \in 1..maxFiles |->
                             LET abs == filepathAbs(sorted[maxFiles + 1 - i], wd)
                             IN  IF abs.err THEN sorted[maxFiles + 1 - i] ELSE abs.path]]

\* getImageFiles after the sort: the basename for the archive, the absolute
\* path (the path itself if filepath.Abs fails) for the relocation
TakeFilePaths(sorted, count, wd) ==
  LET maxFiles == IF Len(sorted) < count THEN Len(sorted) ELSE count
  IN  [FilesToArchive |-> [i \in 1..maxFiles |-> filepathBase(sorted[i])],
       FilesToDelete  |-> [i \in 1..maxFiles |->
                             LET abs == filepathAbs(sorted[i], wd)
                             IN  IF abs.err THEN sorted[i] ELSE abs.path]]

\* SAI_CAMERA_DIRECTORY as a configuration may give it
CameraDirectoryTexts ==
  {<<"c">>, <<"/", "d", "/", "c">>, <<"c", "/">>, <<".", "/", "c">>,
   <<"d", "/", ".", ".", "/", "c">>, <<".">>}

\* what os.Getwd may return
GetwdOutcomes ==
  {[err |-> FALSE, dir |-> <<"/", "w">>], [err |-> FALSE, dir |-> <<"/">>],
   [err |-> TRUE, dir |-> <<>>]}

BatchNameSet == {FileA1, FileA2, FileB1}

InitPaths ==
  /\ Count \in ConfigCounts
  /\ cam = BatchNameSet
  /\ CallStart
  /\ input \in [dir : CameraDirectoryTexts, wd : GetwdOutcomes, names : Listings(BatchNameSet)]
  /\ pc = "getImageFiles"

\* getImageFiles for the names fileBrowser matched in the directory
CallGetImageFilePaths ==
  /\ pc = "getImageFiles"
  /\ LET files == [i \in DOMAIN input.names |-> filepathJoin(input.dir, input.names[i])]
         key   == [f \in Range(files) |-> sortByNamePart(Join(<<>>, filepathBase(f)))]
     IN  \E sorted \in SortSliceOutcomes(files, key) :
            output' = TakeFilePaths(sorted, Count, input.wd)
  /\ pc' = "returned"
  /\ UNCHANGED <<cfgVars, dirVars, clockVars, stamp, exitCode, sigPending, loopVars,
                 packVars, envLeft, histVars, input>>

SpecPaths == InitPaths /\ [][CallGetImageFilePaths]_vars
----------------------------------------------------------------------------
(* The pipeline in production mode with the timer ticking, no signal, a   *)
(* quiet camera directory, and uploads and deletes that eventually succeed *)

InitFair ==
  /\ testMode = FALSE
  /\ Count = MaxCount
  /\ archiveExt \in ConfigArchiveExts
  /\ cam = InitialCamera
  /\ temp = Leftovers
  /\ proc = {}
  /\ PipelineStart
  /\ pc = "makeJobForArchives"
  /\ PureIdle

NextFair ==
  \/ MakeJobForArchives \/ ArchivesLoop \/ UploadFile \/ DeleteFile
  \/ MakeJobForAreas \/ AreasDone \/ PackImagesForArea \/ CreateArchive
  \/ TestArchive \/ MoveImages
  \/ CheckTestTimeout \/ SelectTick

\* every name an archive in the scratch directory can have
ArchiveNames ==
  Names(Leftovers)
    \cup {ArchiveName(Reading(k), Prefix, areas[i], Postfix, ext) :
            k \in 1..MaxStamp, i \in DOMAIN areas, ext \in ConfigArchiveExts}

\* the upload of the archive named n is answered with a 2xx status
UploadSucceeds(n) ==
  /\ UploadFile
  /\ Base(cur) = n
  /\ lastUpload'.kind = "status"
  /\ IsSuccess(lastUpload'.status)

\* os.Remove of the archive named n succeeds
DeleteSucceeds(n) ==
  /\ DeleteFile
  /\ Base(cur) = n
  /\ n \notin Names(temp')

\* the timer keeps ticking, every call programLoop makes returns (so that
\* the process is back at the select of run again and again), and an upload
\* or a delete that is tried again and again succeeds in the end
Fairness ==
  /\ WF_vars(SelectTick)
  /\ []<>(pc = "select")
  /\ \A n \in ArchiveNames : SF_vars(UploadSucceeds(n)) /\ SF_vars(DeleteSucceeds(n))

FairSpec == InitFair /\ [][NextFair]_vars /\ Fairness

----------------------------------------------------------------------------
(* The pipeline in test mode, for every batch size loadConfig accepts     *)
(* (SAI_COUNT is any integer), with a select that eventually receives     *)

\* batch sizes: negative, zero, and the positive ones
AcceptedCounts == (0 - 1)..MaxCount

InitTest ==
  /\ testMode = TRUE
  /\ Count \in AcceptedCounts
  /\ archiveExt \in ConfigArchiveExts
  /\ cam = InitialCamera
  /\ temp = Leftovers
  /\ proc = {}
  /\ PipelineStart
  /\ pc = "makeJobForArchives"
  /\ PureIdle

\* the select of run receives a tick or a signal when one is there, and
\* every call programLoop makes returns or ends the process
FairnessTest ==
  /\ WF_vars(SelectTick \/ SelectSignal)
  /\ []<>(pc \in {"select", "exit"})

FairTestSpec == InitTest /\ [][Next]_vars /\ FairnessTest


\* run with signals: every iteration returns to the select or ends the process,
\* and a case of the select that is ready again and again is eventually taken
FairnessSignal ==
  /\ WF_vars(SelectTick)
  /\ SF_vars(SelectSignal)
  /\ []<>(pc \in {"select", "exit"})

FairSignalSpec == Init /\ [][Next]_vars /\ FairnessSignal

----------------------------------------------------------------------------
(* A run that finds two archives of the configured extension left in the  *)
(* scratch directory, the older one of the area that sorts last by name   *)

LeftoverOlderB == [name |-> ArchiveName(FirstReading - 20, Prefix, AreaB, Postfix, ExtZip),
                   members |-> <<>>, integ |-> "leftover"]
LeftoverNewerA == [name |-> ArchiveName(FirstReading - 10, Prefix, AreaA, Postfix, ExtZip),
                   members |-> <<>>, integ |-> "leftover"]

InitDeliver ==
  /\ testMode \in BOOLEAN
  /\ Count \in ConfigCounts
  /\ archiveExt \in ConfigArchiveExts
  /\ cam = InitialCamera
  /\ proc = {}
  /\ temp = {LeftoverOlderB, LeftoverNewerA}
  /\ PipelineStart
  /\ pc = "makeJobForArchives"
  /\ PureIdle

SpecDeliver == InitDeliver /\ [][NextFair]_vars

----------------------------------------------------------------------------
(* The pipeline in a camera directory whose files have any of the three   *)
(* FITS extensions, at startup or written later; input keeps the camera   *)
(* directory NewAstroCam found                                             *)

FileA1Fits == <<"A", "_", "1">> \o ExtFits
FileB1Fit  == <<"B", "_", "1">> \o ExtFit

ExtCamera == {FileA1, FileA1Fits, FileA1Fit, FileB1Fit}

InitExt ==
  /\ testMode \in BOOLEAN
  /\ Count = 1
  /\ archiveExt \in ConfigArchiveExts
  /\ cam \in SUBSET ExtCamera
  /\ proc = {}
  /\ temp = {}
  /\ PipelineStart
  /\ pc = "makeJobForArchives"
  /\ input = cam
  /\ output = <<>>

\* the camera writes a file with any of the extensions
CameraAdds ==
  /\ pc # "exit"
  /\ envLeft > 0
  /\ \E n \in ExtCamera \ cam : cam' = cam \cup {n}
  /\ envLeft' = envLeft - 1
  /\ UNCHANGED <<cfgVars, proc, temp, clockVars, stamp, pc, exitCode, areaIdx,
                 sigPending, queue, cur, ret, hasNewFiles, packVars, histVars, pureVars>>

NextExt == NextFair \/ CameraAdds

SpecExt == InitExt /\ [][NextExt]_vars
----------------------------------------------------------------------------
(* Properties *)

\* C1: every batch handed to archive creation has exactly Count members,
\* whatever happens to the camera directory between the count check of
\* makeJobForAreas and the listing of getImageFiles
C1_ExactBatch ==
  pc = "createArchive" =>
     /\ checkedCount >= Count
     /\ Len(fileGroup.FilesToArchive) = Count

\* C2: in production mode an archive whose integrity test failed is never
\* passed to uploadFile and never deleted, in the iteration that created
\* it or in a later one
C2_FailedNeverDelivered ==
  ~testMode =>
     \A a \in temp :
        a.integ = "failed" => ~(pc \in {"uploadFile", "deleteFile"} /\ Base(cur) = a.name)

\* C3: an archive leaves the scratch directory only in the deleteFile that
\* directly follows an upload of that same archive answered with a status
\* in 200..299; after an upload that ended in any other way (open failure,
\* transport error, other status) the archive stays and no delete follows
C3_RemovedOnlyAfter2xx ==
  [][/\ \A n \in Names(temp) \ Names(temp') :
           /\ pc = "deleteFile"
           /\ lastUpload.name = n
           /\ lastUpload.kind = "status"
           /\ lastUpload.status \in 200..299
     /\ (pc = "uploadFile" /\ pc' # "uploadFile"
           /\ ~(lastUpload'.kind = "status" /\ lastUpload'.status \in 200..299))
          => (temp' = temp /\ pc' # "deleteFile")]_vars

\* C3 witness: an archive was uploaded with a 2xx status and then removed
C3_Witness ==
  \E n \in delivered : n \notin Names(temp)

\* the re-delivery scan of the current iteration is over and no area has
\* been scanned yet
BeforeAreas == pc = "makeJobForAreas" /\ areaIdx = 1

C5_AtLeastOnce ==
  \A n \in ArchiveNames :
     (n \in Names(temp)) ~> (n \in delivered /\ n \notin Names(temp))

\* what does hold under the same assumptions: every archive with the
\* configured extension is eventually uploaded with a 2xx status and removed
AtLeastOnceConfiguredExt ==
  \A n \in {m \in ArchiveNames : \E e \in ConfigArchiveExts : HasSuffix(m, e)} :
     (n \in Names(temp)) ~> (n \in delivered /\ n \notin Names(temp))

\* C6: an archive whose upload was answered with a 2xx status is never
\* uploaded again, whatever the delete after the upload did
C6_AtMostOnce ==
  [][(pc = "uploadFile" /\ lastUpload'.kind = "status" /\ IsSuccess(lastUpload'.status))
        => Base(cur) \notin delivered]_vars

\* C7: between the recorded starts of two successive upload attempts of
\* one process at least 120 seconds pass
C7_ThrottleGap ==
  lastGap # NoTime => lastGap >= uploadThrottleDelay

\* C7 witness: a second upload attempt was made
C7_Witness ==
  lastGap = uploadThrottleDelay /\ lastUpload.kind # "none"

\* the key the batch is ordered by: the basename after its first "_",
\* without the extension
SortKey(path) ==
  LET name == path.base
      from == CHOOSE i \in 1..Len(name) : name[i] = "_" /\ \A j \in 1..(i - 1) : name[j] # "_"
  IN  SubSeq(name, from + 1, Len(name) - Len(ExtFts))

\* C8: the batch is the Count files with the smallest keys in ascending
\* key order, for every order of the listing; no file is selected while
\* an unselected file has a strictly smaller key
C8_SmallestKeysFirst ==
  pc = "returned" =>
     LET batch == output.FilesToDelete
         rest  == Range(input) \ Range(batch)
     IN  /\ ~output.panic
         /\ Len(input) >= Count => Len(batch) = Count
         /\ Range(batch) \subseteq Range(input)
         /\ \A i, j \in DOMAIN batch : i # j => batch[i] # batch[j]
         /\ \A i \in 1..(Len(batch) - 1) : ~StrLess(SortKey(batch[i + 1]), SortKey(batch[i]))
         /\ \A f \in Range(batch) : \A u \in rest : ~StrLess(SortKey(u), SortKey(f))
         /\ output.FilesToArchive = [i \in DOMAIN batch |-> batch[i].base]

\* C8 witness: a batch of two taken from a listing of four files that
\* starts with the file of the largest key
C8_Witness ==
  /\ pc = "returned"
  /\ Count = 2
  /\ Len(input) = 4
  /\ input[1].base = FileA2
  /\ Len(output.FilesToArchive) = 2

\* C9: fileBrowser returns exactly the entries that are no directories and
\* whose name begins with the area and "_" or "-SF_" and ends with ext
C9_BeginsAndEnds ==
  pc = "returned" =>
     Range(output) =
        {Join(CameraDirectory, e.name) :
           e \in {x \in input :
                    /\ ~x.isDir
                    /\ \/ OccursAt(x.name, AreaA \o <<"_">>, 0)
                       \/ OccursAt(x.name, AreaA \o <<"-", "S", "F", "_">>, 0)
                    /\ HasSuffix(x.name, ExtFts)}}

\* C10: in test mode every failed pipeline step ends the process with a
\* non-zero exit status
C10_TestModeFatal ==
  (testMode /\ lastFail # "none") => (pc = "exit" /\ exitCode > 0)

\* C11: a test-mode process ends with exit status 0 only in checkTestTimeout,
\* when more than 2 minutes have passed since the idle window started
C11_ZeroOnlyByTimeout ==
  [][(testMode /\ pc # "exit" /\ pc' = "exit" /\ exitCode' = 0)
        => (pc = "checkTestTimeout" /\ sinceTestStart > testTimeout)]_vars

\* no area has at least Count matching files in the camera directory
NoFullArea == \A i \in DOMAIN areas : Len(Matching(areas[i])) < Count

\* C12: in test mode, if from some point on no area has at least Count
\* matching files, the process eventually ends, with status 0 unless a
\* fatal error ended it; it never goes on to another iteration once
\* checkTestTimeout has seen more than 2 minutes since the idle window began
C12_IdleTimeout ==
  /\ [](pc = "select" => sinceTestStart <= testTimeout)
  /\ [](pc = "exit" => (exitCode = 0 \/ lastFail # "none"))
  /\ (<>[]NoFullArea) => <>(pc = "exit")

\* C12 witness: the idle timeout has ended the process with status 0
C12_Witness ==
  /\ pc = "exit"
  /\ exitCode = 0
  /\ ~sigPending
  /\ sinceTestStart > testTimeout
  /\ NoFullArea
  /\ Count > 0


\* C13: once a shutdown signal has been received no further programLoop is
\* started; with a tick and the signal both pending at the select of run, the
\* signal is the one handled.
C13_NoScanAfterSignal ==
  [][(pc = "select" /\ sigPending) => pc' # "makeJobForArchives"]_vars

\* C14: a received shutdown signal stays pending until the select of run takes
\* it, whether it arrived at the select or during an iteration, and once a
\* signal is pending the process eventually ends (run returns unless the
\* iteration in progress ends the process itself).
C14_ShutdownLiveness ==
  /\ [][sigPending => (sigPending' \/ (pc = "select" /\ pc' = "exit" /\ exitCode' = 0))]_vars
  /\ sigPending ~> (pc = "exit")

C14_Witness ==
  /\ pc = "exit" /\ exitCode = 0 /\ ~sigPending
  /\ ~testMode /\ delivered # {}

\* the files an attempt of moveImages leaves in the camera directory, among
\* those it was given
NotRelocated(files) == {f \in Range(files) : Base(f) \notin cam \ cam'}

\* C15: moveImages makes at most 2 attempts per call.  The first is over every
\* file of the batch; only if a file failed does it wait 3 seconds and go
\* over exactly the files that failed, so no file relocated by the first
\* attempt is touched by the second and no file is attempted more than twice.
C15_TwoAttempts ==
  /\ [](pc = "moveImages" => attempt \in 1..maxRetries)
  /\ [][(pc # "moveImages" /\ pc' = "moveImages")
           => (attempt' = 1 /\ moveFiles' = fileGroup.FilesToDelete)]_vars
  /\ [][(pc = "moveImages" /\ (pc' # pc \/ attempt' # attempt))
           => /\ lastMove'.removed \cup lastMove'.renamed \cup lastMove'.ioFailed
                   = {Base(f) : f \in Range(moveFiles)}
              /\ IF pc' = "moveImages"
                 THEN /\ attempt = 1 /\ attempt' = 2
                      /\ lastMove'.ioFailed # {}
                      /\ Range(moveFiles') = NotRelocated(moveFiles)
                      /\ \A f \in Range(moveFiles') : Base(f) \in lastMove'.ioFailed
                      /\ tickIn' = IF tickIn > retryDelay THEN tickIn - retryDelay
                                   ELSE tickIn - retryDelay + actualInterval(Interval)
                 ELSE /\ lastMove'.ioFailed = {} \/ attempt = maxRetries
                      /\ tickIn' = tickIn]_vars

C15_Witness ==
  /\ pc = "uploadFile" /\ attempt = 2 /\ lastFail = "none"
  /\ lastMove.renamed # {} /\ Len(moveFiles) = 1 /\ Len(fileGroup.FilesToDelete) = 2

\* the step in which moveImages ends its last attempt with a file not relocated
FinalAttemptFails ==
  /\ pc = "moveImages" /\ pc' # pc
  /\ attempt = maxRetries /\ lastMove'.ioFailed # {}

C16_WitnessTestMode ==
  /\ testMode /\ pc = "exit" /\ exitCode = 1 /\ lastFail = "relocation"

BatchNames == {Base(f) : f \in Range(input)}

DateTimeDigits(w) ==
  <<"2", "0", "2", "5", "0", "1">> \o TwoDigits(1 + w \div 86400) \o TimeStr(w)

\* C18: for names of the namer's format, with any prefix, area and postfix
\* (empty, or holding '_' or '-'), sortByArchiveName yields the date digits
\* followed by the time digits, so the keys order the names as their
\* readings order them in time.
C18_RoundTrip ==
  pc = "returned" =>
    /\ \A i \in 1..2 : output.keys[i] = DateTimeDigits(input.stamps[i].now)
    /\ \A i, j \in 1..2 :
         StrLess(output.keys[i], output.keys[j])
           <=> input.stamps[i].now < input.stamps[j].now

C18_Witness ==
  /\ pc = "returned"
  /\ input.prefix = <<"P", "_">> /\ input.postfix = <<"_">>
  /\ input.stamps[1].area = <<"A", "_", "B">>
  /\ input.stamps[1].now = Reading(1) /\ input.stamps[2].now = Reading(2)
  /\ StrLess(output.keys[1], output.keys[2])
  /\ ~StrLess(TimeStr(Reading(1)), TimeStr(Reading(2)))

\* the iteration is past its re-delivery scan: it is scanning the areas,
\* running an area's pipeline, or at its end
AreaPhase ==
  \/ pc \in {"makeJobForAreas", "packImagesForArea", "createArchive", "testArchive",
             "moveImages", "checkTestTimeout"}
  \/ pc \in {"uploadFile", "deleteFile"} /\ ret = "areas"

ArchiveKey(path) == sortByArchiveName(path, archiveExt, Postfix)

\* C19: in every iteration the re-delivery scan is over before an area is
\* scanned, the leftover archives are attempted in ascending order of their
\* sort key, and every upload of a leftover archive comes before every upload
\* of an archive the iteration has created.
C19_LeftoversFirstInOrder ==
  /\ [](AreaPhase => queue = <<>>)
  /\ [][(AreaPhase /\ ~AreaPhase') => pc' \in {"select", "exit"}]_vars
  /\ []((pc = "uploadFile" /\ ret = "areas") => cur = archiveFileName)
  /\ []((pc = "uploadFile" /\ ret = "archives")
          => /\ ~AreaPhase
             /\ \A i \in DOMAIN queue : ~StrLess(ArchiveKey(queue[i]), ArchiveKey(cur)))
  /\ [][(pc = "makeJobForArchives" /\ pc' = "archivesLoop")
          => /\ Range(queue') = {Join(tempDirectory, n) : n \in {a \in Names(temp) : HasSuffix(a, archiveExt)}}
             /\ \A i, j \in DOMAIN queue' :
                  i < j => ~StrLess(ArchiveKey(queue'[j]), ArchiveKey(queue'[i]))]_vars

C19_Witness ==
  /\ pc = "deleteFile" /\ ret = "areas"
  /\ attemptedIter = {LeftoverOlderB.name, LeftoverNewerA.name, Base(archiveFileName)}
  /\ StrLess(LeftoverNewerA.name, LeftoverOlderB.name)
  /\ StrLess(ArchiveKey(Join(tempDirectory, LeftoverOlderB.name)),
             ArchiveKey(Join(tempDirectory, LeftoverNewerA.name)))

\* the archive of the pipeline in progress is in the scratch directory with
\* the given integrity mark and holds the batch
ArchiveIs(mark) ==
  \E a \in temp : /\ a.name = Base(archiveFileName)
                  /\ a.integ = mark
                  /\ a.members = fileGroup.FilesToArchive

SameBatchTakenUp ==
  /\ pc = "packImagesForArea"
  /\ fileGroup.FilesToDelete # <<>>
  /\ Range(fileGroup.FilesToDelete) \subseteq Range(Matching(areas[areaIdx]))

\* C21: in production mode, after the creation of an area's archive has
\* failed, no upload is attempted and no file of the batch is relocated for
\* it, whatever was written of the archive stays in the scratch directory,
\* and no later iteration takes up archiving that batch again.
C21_CreationFailureAbandoned ==
  /\ [][(~testMode /\ pc = "createArchive" /\ lastFail' = "create")
          => /\ pc' = "makeJobForAreas" /\ areaIdx' = areaIdx + 1
             /\ cam' = cam /\ proc' = proc
             /\ attemptedIter' = attemptedIter
             /\ temp \subseteq temp']_vars
  /\ []((~testMode /\ lastFail = "create") => [](~SameBatchTakenUp))

\* the server did not accept the upload: no answer, or a status outside 2xx
Refused(upload) ==
  \/ upload.kind = "transport"
  \/ upload.kind = "status" /\ ~(upload.status >= 200 /\ upload.status < 300)

BatchRelocated ==
  \A i \in DOMAIN fileGroup.FilesToDelete : Base(fileGroup.FilesToDelete[i]) \in proc

\* C22: in test mode, when the server does not accept the upload of the
\* archive of an area's full batch, the process exits with a non-zero status;
\* at that point the archive is in the scratch directory, the files of the
\* batch are in the processed directory, and no area later in the configured
\* order is processed: the refused upload is the last step of the program,
\* taken at the area of the batch, and changes no directory.
C22_RefusedUploadInTestMode ==
  /\ [][(testMode /\ pc = "uploadFile" /\ ret = "areas" /\ pc' # pc /\ Refused(lastUpload'))
          => /\ pc' = "exit" /\ exitCode' # 0
             /\ areaIdx' = areaIdx
             /\ dirVars' = dirVars]_vars
  /\ []((testMode /\ pc = "exit" /\ ret = "areas" /\ Refused(lastUpload))
          => /\ exitCode # 0
             /\ ArchiveIs("passed")
             /\ BatchRelocated
             /\ areaIdx \in DOMAIN areas
             /\ stamp >= 1)
  /\ [][pc = "exit" => (pc' = "exit" /\ areaIdx' = areaIdx /\ stamp' = stamp
                          /\ temp' = temp /\ proc' = proc)]_vars

C22_Witness ==
  /\ testMode /\ pc = "exit" /\ exitCode = 1 /\ ret = "areas"
  /\ lastUpload.kind = "status" /\ lastUpload.status = 500
  /\ Count = 1 /\ areaIdx = 1 /\ BatchRelocated
  /\ Len(Matching(areas[2])) >= Count

\* the call of uploadFile just made did not end in a 2xx answer
UploadFailed ==
  /\ lastUpload.kind # "none"
  /\ ~(lastUpload.kind = "status" /\ lastUpload.status >= 200 /\ lastUpload.status < 300)

\* C23: when a test-mode run exits with status 0, every upload attempted
\* during the run has succeeded and, at the final scan, every configured area
\* has fewer than Count matching files in the camera directory.
C23_ZeroMeansClean ==
  /\ []((testMode /\ UploadFailed) => [](pc = "exit" => exitCode # 0))
  /\ []((testMode /\ pc = "exit" /\ exitCode = 0) => NoFullArea)

\* C24: determineArchiveSettings, for every archive mode and every outcome of
\* the search for the rar tool: 'zip' gives compressed ZIP and
\* 'zip-uncompressed' stored ZIP whatever the search found; 'rar', 'auto' and
\* any other mode give RAR iff the tool was found, else compressed ZIP; useRAR
\* implies the tool was found with a non-empty path, and archiveExt is .rar
\* iff useRAR, else .zip.
C24_ArchiveSettings ==
  pc = "returned" =>
    LET mode  == output.ArchiveMode
        found == input.found
        s     == output.settings
    IN  /\ mode = <<"z", "i", "p">> => (~s.useRAR /\ s.zipCompressed)
        /\ mode = <<"z", "i", "p", "-", "u", "n", "c", "o", "m", "p", "r", "e", "s", "s", "e", "d">>
             => (~s.useRAR /\ ~s.zipCompressed)
        /\ mode \notin {<<"z", "i", "p">>,
                        <<"z", "i", "p", "-", "u", "n", "c", "o", "m", "p", "r", "e", "s", "s", "e", "d">>}
             => /\ s.useRAR <=> found.rarAvailable
                /\ ~s.useRAR => s.zipCompressed
        /\ s.useRAR => (found.rarAvailable /\ s.rarPath # "")
        /\ s.archiveExt = (IF s.useRAR THEN <<".", "r", "a", "r">> ELSE <<".", "z", "i", "p">>)

C24_Witness ==
  /\ pc = "returned"
  /\ output.ArchiveMode = <<"r", "a", "r">> /\ input.value # output.ArchiveMode
  /\ ~input.found.rarAvailable
  /\ ~output.settings.useRAR /\ output.settings.zipCompressed
  /\ output.settings.archiveExt = <<".", "z", "i", "p">>

\* the value a config.env line gives a key: the text after "=" up to an
\* inline comment
ConfiguredValue(text) ==
  LET marks == {i \in DOMAIN text : text[i] = "#"}
  IN  IF marks = {} THEN text
      ELSE SubSeq(text, 1, (CHOOSE i \in marks : \A j \in marks : i <= j) - 1)

NonBlank(text) == \E i \in DOMAIN text : ~IsSpace(text[i])

\* C25: an upload request carries HTTP Basic authentication iff the
\* configured username and the configured password are both non-empty after
\* trimming whitespace; if either is empty or whitespace-only no
\* Authorization header is set, and a header that is set carries exactly the
\* configured username and password.
C25_BasicAuth ==
  pc = "returned" =>
    LET username == ConfiguredValue(input.username)
        password == ConfiguredValue(input.password)
    IN  /\ output.Authorization.set <=> (NonBlank(username) /\ NonBlank(password))
        /\ ~output.Authorization.set => output.Authorization = NoAuthorization
        /\ output.Authorization.set
             => /\ output.Authorization.username = TrimSpace(username)
                /\ output.Authorization.password = TrimSpace(password)
                /\ NonBlank(output.Authorization.username)
                /\ NonBlank(output.Authorization.password)

C25_Witness ==
  /\ pc = "returned"
  /\ input.username = <<" ", "u", " ">>
  /\ input.password = <<"u", " ", "v">>
  /\ output.Authorization = [set |-> TRUE, username |-> <<"u">>, password |-> <<"u", " ", "v">>]

\* a step of uploadFile (at its position nothing has been uploaded in the
\* current step yet)
UploadAttempted == pc = "uploadFile" /\ lastUpload'.kind # "none"

\* C26: every call of uploadFile sets lastUploadTime to the time of that
\* attempt, whatever the attempt's result (archive not opened, transport
\* failure, any status), and no other operation writes lastUploadTime: outside
\* uploadFile the time since the last upload only grows, and a lastUploadTime
\* that was never set stays unset.
C26_LastUploadTime ==
  [][/\ UploadAttempted => sinceLastUpload' = 0
     /\ ~UploadAttempted
          => IF sinceLastUpload = NoTime THEN sinceLastUpload' = NoTime
             ELSE sinceLastUpload' # NoTime /\ sinceLastUpload' >= sinceLastUpload]_vars

C26_Witness ==
  /\ lastUpload.kind = "open"
  /\ sinceLastUpload = 0
  /\ lastGap = NoTime

\* the steps of makeJobForAreas: the look at the area at areaIdx, and the
\* statement after the loop
AreaChecked ==
  pc = "makeJobForAreas" /\ areaIdx <= Len(areas) /\ (pc' # pc \/ areaIdx' # areaIdx)

AreaScanEnds == pc = "makeJobForAreas" /\ areaIdx > Len(areas) /\ pc' # pc

AreaScanBegins == pc = "archivesLoop" /\ pc' = "makeJobForAreas"

\* C27: testStartTime is reset in an iteration iff the process is in test
\* mode and at least one area had at least Count matching files in that
\* iteration's area scan: the scan starts with nothing found, each area
\* looked at adds whether its listing held at least Count files, nothing
\* else changes that record, the end of the scan resets the idle window
\* exactly when in test mode with something found, and no other step (the
\* re-delivery scan included) resets it.
C27_IdleWindowReset ==
  [][/\ AreaScanBegins => ~hasNewFiles'
     /\ AreaChecked
          => hasNewFiles' = (hasNewFiles \/ (lastFail' = "none"
                                             /\ Len(Matching(areas[areaIdx])) >= Count))
     /\ (~AreaScanBegins /\ ~AreaChecked) => hasNewFiles' = hasNewFiles
     /\ AreaScanEnds
          => sinceTestStart' = (IF testMode /\ hasNewFiles THEN 0 ELSE sinceTestStart)
     /\ ~AreaScanEnds => sinceTestStart' >= sinceTestStart
     /\ ~testMode => sinceTestStart' = sinceTestStart]_vars

C27_Witness ==
  /\ testMode
  /\ pc = "checkTestTimeout"
  /\ hasNewFiles
  /\ stamp = 1
  /\ sinceTestStart = 0

C27_WitnessNoReset ==
  /\ testMode
  /\ pc = "checkTestTimeout"
  /\ ~hasNewFiles
  /\ sinceTestStart > 0
  /\ cam # {}

\* a step of the pipeline that failed
StepFailed == lastFail' # "none" /\ (pc' # pc \/ areaIdx' # areaIdx)

ListingFailed ==
  /\ pc \in {"makeJobForAreas", "packImagesForArea"}
  /\ lastFail' = "discovery"
  /\ (pc' # pc \/ areaIdx' # areaIdx)

AreaSkipped ==
  /\ AreaChecked
  /\ lastFail' = "none"
  /\ Len(Matching(areas[areaIdx])) < Count

\* the area scan of an iteration is in progress
InAreaScan ==
  \/ pc \in {"makeJobForAreas", "packImagesForArea", "createArchive", "testArchive",
             "moveImages"}
  \/ (pc \in {"uploadFile", "deleteFile"} /\ ret = "areas")

\* a step of the program (the camera and the signal leave these alone)
ProgramStep == pc' # pc \/ areaIdx' # areaIdx \/ attempt' # attempt

\* the files in the camera directory that match the area at index i
AreaFiles(i) == {f \in cam : RegexMatch(areas[i], fitsExt, f)}

\* C30: an area with fewer than Count matching files is skipped with no
\* effect: the step moves, deletes, creates and uploads nothing and leaves
\* lastUploadTime, the idle-window start and the record of files found as
\* they were; packImagesForArea is entered only for the area at hand when it
\* lists at least Count files; areas are visited in configured order, one at
\* a time, so for the rest of the scan the program neither removes a file of
\* an area already passed from the camera directory nor relocates one.
C30_SmallAreaSkipped ==
  /\ [][AreaSkipped
          => /\ pc' = "makeJobForAreas"
             /\ areaIdx' = areaIdx + 1
             /\ dirVars' = dirVars
             /\ clockVars' = clockVars
             /\ stamp' = stamp
             /\ hasNewFiles' = hasNewFiles
             /\ lastUpload' = NoUpload
             /\ lastMove' = NoMove
             /\ attemptedIter' = attemptedIter
             /\ exitCode' = exitCode]_vars
  /\ [][(pc # "packImagesForArea" /\ pc' = "packImagesForArea")
          => /\ pc = "makeJobForAreas"
             /\ areaIdx' = areaIdx
             /\ areaIdx <= Len(areas)
             /\ Len(Matching(areas[areaIdx])) >= Count]_vars
  /\ [][(InAreaScan /\ ProgramStep)
          => /\ areaIdx' \in {areaIdx, areaIdx + 1}
             /\ \A i \in 1..(areaIdx - 1) :
                  /\ AreaFiles(i) \subseteq cam'
                  /\ AreaFiles(i) \cap proc' \subseteq proc]_vars

\* C30 witness: the first area has files, but fewer than Count; the scan has
\* passed it with nothing found
C30_Witness ==
  /\ pc = "makeJobForAreas"
  /\ areaIdx = 2
  /\ lastFail = "none"
  /\ ~hasNewFiles
  /\ AreaFiles(1) # {}
  /\ Len(Matching(areas[1])) < Count
  /\ cam \cap proc = {}

\* C31: the re-delivery scan takes up every archive file that is in the
\* scratch directory when it lists it, whatever format the file has (.rar or
\* .zip) and whatever format the current run creates.
C31_EveryLeftoverListed ==
  [][(pc = "makeJobForArchives" /\ pc' = "archivesLoop")
        => Names(temp) \subseteq {Base(queue'[i]) : i \in DOMAIN queue'}]_vars

\* C32: createArchive and testArchive always run with the working directory
\* set to the camera directory; on every return from packImagesForArea the
\* working directory is the one the call was entered with; moveImages and
\* uploadFile run in that directory too.
C32_WorkingDirectory ==
  \A i \in DOMAIN output.ran :
     LET step == output.ran[i]
     IN  IF step.op \in {"createArchive", "testArchive"}
         THEN step.wd = CameraDirectory
         ELSE step.wd = step.entry

\* C33: the batch size the pipeline runs with is at least 1, for every
\* SAI_COUNT value loadConfig accepts.
C33_CountAtLeastOne ==
  pc \in {"run", "select"} => output.config.Count >= 1

\* the number a line of config.env holds, if it holds one
Configured(line) == Atoi(loadValue(line.text))

\* C34: the period of the ticker is max(configured interval, 15) seconds,
\* with the 15-second default standing in for a configured value that is
\* missing, empty, not a number or above 86400; it is always in 15..86400.
C34_TimerPeriod ==
  pc = "select" =>
    LET line     == input.interval
        interval == IF ~line.set \/ Configured(line).err \/ Configured(line).val > 86400
                    THEN 15
                    ELSE Configured(line).val
    IN  /\ output.period = (IF interval > 15 THEN interval ELSE 15)
        /\ output.period \in 15..86400

C34_Witness ==
  /\ pc = "select"
  /\ input.interval = Line(<<"-", "5">>)
  /\ output.config.Interval = 0 - 5
  /\ output.period = 15

C34_WitnessAboveMaximum ==
  /\ pc = "select"
  /\ input.interval = Line(<<"8", "6", "4", "0", "1">>)
  /\ output.config.RequestedInterval = 86401
  /\ output.period = 15

\* the camera directory NewAstroCam found holds a name with this extension
FoundAtStartup(ext) == \E n \in input : HasSuffix(n, ext)

\* the first of .fts, .fits, .fit found at startup, .fts when none was
StartupExtension ==
  IF FoundAtStartup(ExtFts) THEN ExtFts
  ELSE IF FoundAtStartup(ExtFits) THEN ExtFits
  ELSE IF FoundAtStartup(ExtFit) THEN ExtFit
  ELSE ExtFts

\* C35: the FITS extension is the first of .fts, .fits, .fit for which the
\* camera directory held a file at startup (.fts when it held none) and never
\* changes; every discovery of every iteration uses it, whatever files
\* appear in the camera directory later: an area is taken up exactly when it
\* has Count files that fileBrowser finds with that extension, and the batch
\* is made of such files.
C35_FitsExtensionFixed ==
  /\ [](fitsExt = StartupExtension)
  /\ [][fitsExt' = fitsExt]_vars
  /\ [][(AreaChecked /\ lastFail' = "none")
          => (pc' = "packImagesForArea"
                <=> Len(fileBrowser(areas[areaIdx], CameraDirectory, StartupExtension,
                                    Entries(cam))) >= Count)]_vars
  /\ [][(pc = "packImagesForArea" /\ pc' = "createArchive")
          => Range(fileGroup'.FilesToArchive)
               \subseteq {Base(f) : f \in Range(fileBrowser(areas[areaIdx], CameraDirectory,
                                                           StartupExtension, Entries(cam)))}]_vars

\* C35 witness: startup found only a .fit file; a .fts file was written
\* later, and the batch taken up is still the .fit file
C35_Witness ==
  /\ input = {FileA1Fit}
  /\ FileA1 \in cam
  /\ fitsExt = ExtFit
  /\ pc = "createArchive"
  /\ fileGroup.FilesToArchive = <<FileA1Fit>>

\* the archive of the batch in progress, in the scratch directory with its
\* integrity test passed
PassedArchives == {a \in temp : a.name = Base(archiveFileName) /\ a.integ = "passed"}

\* C36: no data loss. A step of the program takes a file out of the camera
\* directory or puts one into the processed directory only in moveImages,
\* and only a member of the batch's archive, which is in the scratch
\* directory and has passed its integrity test; and an archive that has
\* passed its test stays in the scratch directory unchanged until the
\* deleteFile that follows an upload of it answered with a 2xx status.
C36_NoDataLoss ==
  /\ [][(ProgramStep /\ (cam' # cam \/ proc' # proc))
          => /\ pc = "moveImages"
             /\ cam' \subseteq cam
             /\ proc \subseteq proc'
             /\ \E a \in PassedArchives :
                   /\ (cam \ cam') \cup (proc' \ proc) \subseteq Range(a.members)
                   /\ a \in temp']_vars
  /\ [][\A a \in temp :
          a.integ = "passed"
            => \/ a \in temp'
               \/ /\ pc = "deleteFile"
                  /\ Base(cur) = a.name
                  /\ lastUpload.name = a.name
                  /\ lastUpload.kind = "status"
                  /\ lastUpload.status \in 200..299
                  /\ a.name \in delivered]_vars

\* C36 witness: the files of a batch are in the processed directory, and the
\* archive they are members of was uploaded with a 2xx status and deleted
C36_Witness ==
  /\ proc # {}
  /\ proc = Range(fileGroup.FilesToArchive)
  /\ cam \cap proc = {}
  /\ Base(archiveFileName) \in delivered
  /\ Base(archiveFileName) \notin Names(temp)

IterationStarts == pc # "makeJobForArchives" /\ pc' = "makeJobForArchives"

\* C38: the first iteration runs at startup, before the ticker has fired;
\* every later iteration starts at the select of run, where no iteration is
\* in progress, and only by a tick: one that was waiting in the ticker's
\* channel, which is then empty however many periods passed meanwhile, or the
\* tick that fires next, after which the following one is a full period away.
C38_IterationsByTick ==
  /\ (pc = "makeJobForArchives" /\ ~tickPending /\ tickIn = actualInterval(Interval))
  /\ [][IterationStarts
          => /\ pc = "select"
             /\ ~tickPending'
             /\ IF tickPending
                THEN tickIn' = tickIn /\ sinceLastUpload' = sinceLastUpload
                ELSE tickIn' = actualInterval(Interval)]_vars
  /\ [](tickIn \in 1..actualInterval(Interval))

\* C38 witness: an iteration that began with the tick left waiting by the
\* iteration before, which had waited out the upload throttle
C38_Witness ==
  /\ pc = "makeJobForArchives"
  /\ lastGap = uploadThrottleDelay
  /\ sinceLastUpload = 0
  /\ ~tickPending
  /\ tickIn < actualInterval(Interval)

\* what follows the last separator of a path
LastElement(path) ==
  LET marks == {i \in DOMAIN path : path[i] = "/"}
  IN  IF marks = {} THEN path
      ELSE SubSeq(path, (CHOOSE i \in marks : \A j \in marks : j <= i) + 1, Len(path))

\* C39: for every non-empty batch getImageFiles returns, the archive-member
\* list and the relocation list have the same length, the i-th member name
\* is the basename of the i-th relocation path, and the member names are
\* names of the listing without a directory part: the files relocated are
\* the files named in the archive.
C39_ListsCorrespond ==
  (pc = "returned" /\ Len(output.FilesToArchive) > 0) =>
     /\ Len(output.FilesToArchive) = Len(output.FilesToDelete)
     /\ \A i \in DOMAIN output.FilesToArchive :
          /\ output.FilesToArchive[i] = LastElement(output.FilesToDelete[i])
          /\ output.FilesToArchive[i] \in Range(input.names)
     /\ \A i, j \in DOMAIN output.FilesToArchive :
          i # j => output.FilesToArchive[i] # output.FilesToArchive[j]

\* C39 witness: a batch of two from a relative camera directory, with the
\* relocation paths made absolute
C39_Witness ==
  /\ pc = "returned"
  /\ input.dir = <<"d", "/", ".", ".", "/", "c">>
  /\ input.wd = [err |-> FALSE, dir |-> <<"/", "w">>]
  /\ Len(output.FilesToArchive) = 2
  /\ output.FilesToDelete[1] = <<"/", "w", "/", "c", "/">> \o output.FilesToArchive[1]
====
